---- MODULE Spec2Model ----
(***************************************************************************)
(* Ninuki (five-in-a-row with bracket captures): the GTP connection of     *)
(* gtp_connection.py and the Go0 engine of Ninuki.py as a state machine.   *)
(*                                                                         *)
(* Characters are their ASCII codes, a token is a sequence of characters.  *)
(* A point is an index into the one-dimensional board array, row * NS +    *)
(* col with NS = size + 1; row 0, row size + 1 and column 0 are border.    *)
(***************************************************************************)
EXTENDS Integers, Sequences, FiniteSets, TLC

(***************************************************************************)
(* Bounds of the model.                                                    *)
(***************************************************************************)
\* side length of the board the connection is constructed with
BoardSize == 5
\* number of freely chosen steps (lines read, engine calls) after the opening
MaxFree == 1

(***************************************************************************)
(* board_base: colours, PASS, MAXSIZE, opponent.                           *)
(***************************************************************************)
EMPTY == 0
BLACK == 1
WHITE == 2
BORDER == 3
PASS == 0
MAXSIZE == 25
\* the value of a Python name bound to None
NONE == -1
\* the outcome "the call raised ValueError", in place of a string or a pair
ValueError == <<-1>>

opponent(color) == WHITE + BLACK - color

(***************************************************************************)
(* Characters and strings.                                                 *)
(***************************************************************************)
\* str.lower() on one character
LowerChar(c) == IF 65 <= c /\ c <= 90 THEN c + 32 ELSE c

\* str.lower()
Lower(s) == [i \in 1..Len(s) |-> LowerChar(s[i])]

IsDigit(c) == 48 <= c /\ c <= 57

\* str(n) for an integer n
RECURSIVE StrNat(_)
StrNat(n) == IF n < 10 THEN <<48 + n>> ELSE Append(StrNat(n \div 10), 48 + (n % 10))

Str(n) == IF n < 0 THEN <<45>> \o StrNat(-n) ELSE StrNat(n)

\* the value of a sequence of decimal digits and underscores (the underscores
\* are skipped)
RECURSIVE DigitsValue(_)
DigitsValue(s) ==
  IF Len(s) = 0 THEN 0
  ELSE IF s[Len(s)] = 95 THEN DigitsValue(SubSeq(s, 1, Len(s) - 1))
  ELSE 10 * DigitsValue(SubSeq(s, 1, Len(s) - 1)) + (s[Len(s)] - 48)

\* int(s) accepts s: an optional sign, then decimal digits, single underscores
\* allowed between two digits (s has no white space: it is part of a token)
IsIntLiteral(s) ==
  LET signed == Len(s) >= 1 /\ s[1] \in {43, 45}
      digits == IF signed THEN SubSeq(s, 2, Len(s)) ELSE s
      n == Len(digits)
  IN  /\ n > 0
      /\ \A i \in 1..n : IsDigit(digits[i]) \/ digits[i] = 95
      /\ IsDigit(digits[1]) /\ IsDigit(digits[n])
      /\ \A i \in 1..(n - 1) : ~(digits[i] = 95 /\ digits[i + 1] = 95)

\* int(s) where it is accepted
ParseInt(s) ==
  LET signed == Len(s) >= 1 /\ s[1] \in {43, 45}
      digits == IF signed THEN SubSeq(s, 2, Len(s)) ELSE s
  IN  IF signed /\ s[1] = 45 THEN 0 - DigitsValue(digits) ELSE DigitsValue(digits)

\* the token "pass"
PassToken == <<112, 97, 115, 115>>
\* the string "PASS" format_point returns
PASSString == <<80, 65, 83, 83>>

(***************************************************************************)
(* Coordinates (gtp_connection.py, module level).                          *)
(***************************************************************************)
point_to_coord(point, boardsize) ==
  IF point = PASS THEN <<PASS, PASS>>
  ELSE <<point \div (boardsize + 1), point % (boardsize + 1)>>

coord_to_point(row, col, boardsize) ==
  IF row = PASS /\ col = PASS THEN PASS
  ELSE row * (boardsize + 1) + col

\* "ABCDEFGHJKLMNOPQRSTUVWXYZ"[k], k a Python index (negative counts from the end)
column_letters(k) ==
  LET j == IF k < 0 THEN k + 25 ELSE k
  IN  IF j < 8 THEN 65 + j ELSE 66 + j

format_point(move) ==
  IF move[1] = PASS THEN PASSString
  ELSE IF ~(0 <= move[1] /\ move[1] < MAXSIZE) \/ ~(0 <= move[2] /\ move[2] < MAXSIZE)
    THEN ValueError
  ELSE <<column_letters(move[2] - 1)>> \o Str(move[1])

\* move_to_coord without the step over the letter i: every column letter
\* counts from a = 1
move_to_coord_wrong(point_str, board_size) ==
  IF ~(2 <= board_size /\ board_size <= MAXSIZE) THEN ValueError
  ELSE
    LET s == Lower(point_str) IN
    IF s = PassToken THEN <<PASS, PASS>>
    ELSE IF Len(s) = 0 THEN ValueError
    ELSE
      LET col_c == s[1]
          col == (col_c - 97) + 1
          rest == SubSeq(s, 2, Len(s))
          row == ParseInt(rest)
      IN  IF ~(97 <= col_c /\ col_c <= 122) \/ col_c = 105 THEN ValueError
          ELSE IF ~IsIntLiteral(rest) THEN ValueError
          ELSE IF row < 1 THEN ValueError
          ELSE IF ~(col <= board_size /\ row <= board_size) THEN ValueError
          ELSE <<row, col>>

move_to_coord(point_str, board_size) ==
  IF ~(2 <= board_size /\ board_size <= MAXSIZE) THEN ValueError
  ELSE
    LET s == Lower(point_str) IN
    IF s = PassToken THEN <<PASS, PASS>>
    ELSE IF Len(s) = 0 THEN ValueError
    ELSE
      LET col_c == s[1]
          col == (col_c - 97) + (IF col_c < 105 THEN 1 ELSE 0)
          rest == SubSeq(s, 2, Len(s))
          row == ParseInt(rest)
      IN  IF ~(97 <= col_c /\ col_c <= 122) \/ col_c = 105 THEN ValueError
          ELSE IF ~IsIntLiteral(rest) THEN ValueError
          ELSE IF row < 1 THEN ValueError
          ELSE IF ~(col <= board_size /\ row <= board_size) THEN ValueError
          ELSE <<row, col>>

(***************************************************************************)
(* The board (GoBoard): a record of the array of colours, the side to      *)
(* move, the two capture counts and the last move.                         *)
(***************************************************************************)
\* length of the board array of a board of the given size
board_array_size(size) == size * size + 3 * (size + 1)

\* the points on the board, in ascending order of index
Points(size) == {coord_to_point(r, c, size) : r \in 1..size, c \in 1..size}

\* GoBoard.reset(size): all points empty, Black to move, no captures
reset(size) ==
  [size |-> size,
   board |-> [p \in 0..(board_array_size(size) - 1) |->
                IF p \in Points(size) THEN EMPTY ELSE BORDER],
   current_player |-> BLACK,
   black_captures |-> 0,
   white_captures |-> 0,
   last_move |-> NONE]

\* GoBoard.get_color(point): an index into the array; a negative index counts
\* from the end of the array, an index beyond either end reads no colour
get_color(b, point) ==
  LET n == board_array_size(b.size) IN
  IF 0 <= point /\ point < n THEN b.board[point]
  ELSE IF point < 0 /\ 0 - n <= point THEN b.board[n + point]
  ELSE NONE

get_captures(b, color) == IF color = BLACK THEN b.black_captures ELSE b.white_captures

\* GoBoard.get_empty_points(), a set; a list of them is in ascending order
get_empty_points(b) == {p \in Points(b.size) : b.board[p] = EMPTY}

\* the eight neighbour offsets play_move looks along
Offsets(b) ==
  LET NS == b.size + 1 IN {1, -1, NS, 0 - NS, NS + 1, 0 - (NS + 1), NS - 1, 1 - NS}

\* GoBoard.play_move(point, color): FALSE and no change when the point is not
\* empty; else the stone is placed, the opponent is to move, and every pair of
\* opponent stones bracketed by the new stone and an own stone is removed
play_move_ok(b, point) == get_color(b, point) = EMPTY

play_move(b, point, color) ==
  IF ~play_move_ok(b, point) THEN b
  ELSE
    LET opp == opponent(color)
        placed == [b.board EXCEPT ![point] = color]
        dirs == {o \in Offsets(b) :
                   /\ placed[point + o] = opp
                   /\ placed[point + 2 * o] = opp
                   /\ placed[point + 3 * o] = color}
        gone == {point + o : o \in dirs} \cup {point + 2 * o : o \in dirs}
        n == 2 * Cardinality(dirs)
    IN  [b EXCEPT
           !.board = [p \in DOMAIN placed |-> IF p \in gone THEN EMPTY ELSE placed[p]],
           !.current_player = opp,
           !.last_move = point,
           !.black_captures = IF color = BLACK THEN @ + n ELSE @,
           !.white_captures = IF color = WHITE THEN @ + n ELSE @]

\* the four axes of a line of five
Axes(b) == {1, b.size + 1, b.size + 2, b.size}

\* color has five in a row starting at some point along some axis
has_five(b, color) ==
  \E p \in Points(b.size) : \E d \in Axes(b) :
    /\ b.board[p] = color
    /\ get_color(b, p + d) = color
    /\ get_color(b, p + 2 * d) = color
    /\ get_color(b, p + 3 * d) = color
    /\ get_color(b, p + 4 * d) = color

\* GoBoard.detect_five_in_a_row(): the colour that has five in a row, or EMPTY
detect_five_in_a_row(b) ==
  IF has_five(b, BLACK) THEN BLACK
  ELSE IF has_five(b, WHITE) THEN WHITE
  ELSE EMPTY

\* GoBoardUtil.generate_legal_moves(board, color): the empty points, ascending
SortedSeq(S) ==
  [k \in 1..Cardinality(S) |-> CHOOSE x \in S : Cardinality({y \in S : y < x}) = k - 1]

generate_legal_moves(b, color) == SortedSeq(get_empty_points(b))

(***************************************************************************)
(* Pattern checks of the connection.  x is the row and y the column of the *)
(* move (x, y = point_to_coord(move, size)).  Each `if` of a check is one  *)
(* entry of its table: g lists the offsets k of its guard, each <<v, k>>   *)
(* standing for the test on v + k, and c lists the offsets <<dx, dy>> of   *)
(* the cells move1, move2, ... in the order the code reads them.           *)
(***************************************************************************)
\* check_capture_pattern: guards size >= v + k >= 0; cells X O O
CapturePatternIfs ==
  << [g |-> <<<<"x", -3>>>>, c |-> <<<<-3, 0>>, <<-2, 0>>, <<-1, 0>>>>],
     [g |-> <<<<"x", 3>>>>, c |-> <<<<3, 0>>, <<2, 0>>, <<1, 0>>>>],
     [g |-> <<<<"y", -3>>>>, c |-> <<<<0, -3>>, <<0, -2>>, <<0, -1>>>>],
     [g |-> <<<<"y", 3>>>>, c |-> <<<<0, 3>>, <<0, 2>>, <<0, 1>>>>],
     [g |-> <<<<"x", -3>>, <<"y", -3>>>>, c |-> <<<<-3, -3>>, <<-2, -2>>, <<-1, -1>>>>],
     [g |-> <<<<"x", 3>>, <<"y", -3>>>>, c |-> <<<<3, -3>>, <<2, -2>>, <<1, -1>>>>],
     [g |-> <<<<"x", -3>>, <<"y", 3>>>>, c |-> <<<<-3, 3>>, <<-2, 2>>, <<-1, 1>>>>],
     [g |-> <<<<"x", 3>>, <<"y", 3>>>>, c |-> <<<<3, 3>>, <<2, 2>>, <<1, 1>>>>] >>

\* XOOOX: guards size >= v + k >= 0; cells X O O O
XOOOXIfs ==
  << [g |-> <<<<"x", -4>>>>, c |-> <<<<-4, 0>>, <<-3, 0>>, <<-2, 0>>, <<-1, 0>>>>],
     [g |-> <<<<"x", 4>>>>, c |-> <<<<4, 0>>, <<3, 0>>, <<2, 0>>, <<1, 0>>>>],
     [g |-> <<<<"y", -4>>>>, c |-> <<<<0, -4>>, <<0, -3>>, <<0, -2>>, <<0, -1>>>>],
     [g |-> <<<<"y", 4>>>>, c |-> <<<<0, 4>>, <<0, 3>>, <<0, 2>>, <<0, 1>>>>],
     [g |-> <<<<"x", -4>>, <<"y", -4>>>>, c |-> <<<<-4, -4>>, <<-3, -3>>, <<-2, -2>>, <<-1, -1>>>>],
     [g |-> <<<<"x", 4>>, <<"y", -4>>>>, c |-> <<<<4, -4>>, <<3, -3>>, <<2, -2>>, <<1, -1>>>>],
     [g |-> <<<<"x", 4>>, <<"y", 4>>>>, c |-> <<<<4, 4>>, <<3, 3>>, <<2, 2>>, <<1, 1>>>>],
     [g |-> <<<<"x", -4>>, <<"y", 4>>>>, c |-> <<<<-4, 4>>, <<-3, 3>>, <<-2, 2>>, <<-1, 1>>>>] >>

\* check_four_pattern: guards size >= v + k >= 0; cells O O O O
FourPatternIfs ==
  << [g |-> <<<<"x", -4>>>>, c |-> <<<<-4, 0>>, <<-3, 0>>, <<-2, 0>>, <<-1, 0>>>>],
     [g |-> <<<<"x", 4>>>>, c |-> <<<<4, 0>>, <<3, 0>>, <<2, 0>>, <<1, 0>>>>],
     [g |-> <<<<"x", -3>>, <<"x", 1>>>>, c |-> <<<<-3, 0>>, <<-2, 0>>, <<-1, 0>>, <<1, 0>>>>],
     [g |-> <<<<"x", 3>>, <<"x", -1>>>>, c |-> <<<<1, 0>>, <<3, 0>>, <<2, 0>>, <<-1, 0>>>>],
     [g |-> <<<<"x", -2>>, <<"x", 2>>>>, c |-> <<<<2, 0>>, <<-2, 0>>, <<-1, 0>>, <<1, 0>>>>],
     [g |-> <<<<"y", -4>>>>, c |-> <<<<0, -4>>, <<0, -3>>, <<0, -2>>, <<0, -1>>>>],
     [g |-> <<<<"y", 4>>>>, c |-> <<<<0, 4>>, <<0, 3>>, <<0, 2>>, <<0, 1>>>>],
     [g |-> <<<<"y", 2>>, <<"y", -2>>>>, c |-> <<<<0, 2>>, <<0, 1>>, <<0, -2>>, <<0, -1>>>>],
     [g |-> <<<<"y", 3>>, <<"y", -1>>>>, c |-> <<<<0, -1>>, <<0, 3>>, <<0, 2>>, <<0, 1>>>>],
     [g |-> <<<<"y", -3>>, <<"y", 1>>>>, c |-> <<<<0, -1>>, <<0, -3>>, <<0, -2>>, <<0, 1>>>>],
     [g |-> <<<<"y", 4>>, <<"x", 4>>>>, c |-> <<<<4, 4>>, <<3, 3>>, <<2, 2>>, <<1, 1>>>>],
     [g |-> <<<<"y", 4>>>>, c |-> <<<<-4, -4>>, <<-3, -3>>, <<-2, -2>>, <<-1, -1>>>>],
     [g |-> <<<<"x", 4>>, <<"y", -1>>>>, c |-> <<<<3, -3>>, <<2, -2>>, <<1, -1>>, <<4, -4>>>>],
     [g |-> <<<<"x", -4>>, <<"y", 4>>>>, c |-> <<<<-3, 3>>, <<-2, 2>>, <<-1, 1>>, <<-4, 4>>>>],
     [g |-> <<<<"x", 3>>, <<"x", -1>>, <<"y", -1>>, <<"y", 3>>>>, c |-> <<<<3, 3>>, <<2, 2>>, <<1, 1>>, <<-1, -1>>>>],
     [g |-> <<<<"x", -3>>, <<"x", 1>>, <<"y", 3>>, <<"y", -1>>>>, c |-> <<<<-3, 3>>, <<-2, 2>>, <<-1, 1>>, <<1, -1>>>>],
     [g |-> <<<<"x", 2>>, <<"x", -2>>, <<"y", 2>>, <<"y", -2>>>>, c |-> <<<<2, 2>>, <<1, 1>>, <<-1, -1>>, <<-2, -2>>>>],
     [g |-> <<<<"x", 2>>, <<"x", -2>>, <<"y", 2>>, <<"y", -2>>>>, c |-> <<<<-2, 2>>, <<-1, 1>>, <<1, -1>>, <<2, -2>>>>],
     [g |-> <<<<"x", 3>>, <<"x", -1>>, <<"y", -3>>, <<"y", 1>>>>, c |-> <<<<1, 1>>, <<-1, -1>>, <<-2, -2>>, <<-3, -3>>>>],
     [g |-> <<<<"x", 3>>, <<"x", -1>>, <<"y", -3>>, <<"y", 1>>>>, c |-> <<<<-1, 1>>, <<1, -1>>, <<2, -2>>, <<3, -3>>>>] >>

\* check_open_four_moves: guards 0 <= v + k < size; cells X X X
OpenFourIfs ==
  << [g |-> <<<<"x", -1>>, <<"x", 2>>>>, c |-> <<<<-1, 0>>, <<1, 0>>, <<2, 0>>>>],
     [g |-> <<<<"x", -2>>, <<"x", 1>>>>, c |-> <<<<1, 0>>, <<-1, 0>>, <<-2, 0>>>>],
     [g |-> <<<<"x", -3>>>>, c |-> <<<<-1, 0>>, <<-2, 0>>, <<-3, 0>>>>],
     [g |-> <<<<"x", 3>>>>, c |-> <<<<3, 0>>, <<2, 0>>, <<1, 0>>>>],
     [g |-> <<<<"y", -3>>>>, c |-> <<<<0, -1>>, <<0, -2>>, <<0, -3>>>>],
     [g |-> <<<<"y", -2>>, <<"y", 1>>>>, c |-> <<<<0, 1>>, <<0, -1>>, <<0, -2>>>>],
     [g |-> <<<<"y", 3>>>>, c |-> <<<<0, 3>>, <<0, 2>>, <<0, 1>>>>],
     [g |-> <<<<"y", -1>>, <<"y", 2>>>>, c |-> <<<<0, 2>>, <<0, 1>>, <<0, -1>>>>],
     [g |-> <<<<"x", 3>>, <<"y", 3>>>>, c |-> <<<<3, 3>>, <<2, 2>>, <<1, 1>>>>],
     [g |-> <<<<"x", -1>>, <<"x", 2>>, <<"y", -1>>, <<"y", 2>>>>, c |-> <<<<2, 2>>, <<1, 1>>, <<-1, -1>>>>],
     [g |-> <<<<"x", -3>>, <<"y", -3>>>>, c |-> <<<<-1, -1>>, <<-2, -2>>, <<-3, -3>>>>],
     [g |-> <<<<"x", -2>>, <<"x", 1>>, <<"y", -2>>, <<"y", 1>>>>, c |-> <<<<1, 1>>, <<-1, -1>>, <<-2, -2>>>>],
     [g |-> <<<<"x", -3>>, <<"y", 3>>>>, c |-> <<<<-1, 1>>, <<-2, 2>>, <<-3, 3>>>>],
     [g |-> <<<<"x", 3>>, <<"y", -3>>>>, c |-> <<<<3, -3>>, <<2, -2>>, <<1, -1>>>>],
     [g |-> <<<<"x", -2>>, <<"x", 1>>, <<"y", -1>>, <<"y", 2>>>>, c |-> <<<<1, -1>>, <<-1, 1>>, <<-2, 2>>>>],
     [g |-> <<<<"x", -1>>, <<"x", 2>>, <<"y", -2>>, <<"y", 1>>>>, c |-> <<<<2, -2>>, <<1, -1>>, <<-1, 1>>>>] >>

\* the guard size >= v >= 0
GuardClosed(size, v) == size >= v /\ v >= 0

\* the guard 0 <= v < size
GuardHalfOpen(size, v) == 0 <= v /\ v < size

\* one `if` of a check at the move (x, y): its guard holds, the cells hold the
\* colours wanted, in order, and the move's own point is empty
IfMatches(b, x, y, entry, colors, closed) ==
  /\ \A i \in 1..Len(entry.g) :
        LET v == (IF entry.g[i][1] = "x" THEN x ELSE y) + entry.g[i][2]
        IN  IF closed THEN GuardClosed(b.size, v) ELSE GuardHalfOpen(b.size, v)
  /\ \A i \in 1..Len(entry.c) :
        get_color(b, coord_to_point(x + entry.c[i][1], y + entry.c[i][2], b.size))
          = colors[i]
  /\ get_color(b, coord_to_point(x, y, b.size)) = EMPTY

\* some `if` of the table appends the move: the list returned is not empty
AnyIf(b, move, table, colors, closed) ==
  LET xy == point_to_coord(move, b.size)
  IN  \E i \in 1..Len(table) : IfMatches(b, xy[1], xy[2], table[i], colors, closed)

\* check_capture_pattern with only the four `if`s along a row or a column
check_capture_pattern_straight(b, move, color) ==
  AnyIf(b, move, SubSeq(CapturePatternIfs, 1, 4),
        <<color, opponent(color), opponent(color)>>, TRUE)

check_capture_pattern(b, move, color) ==
  AnyIf(b, move, CapturePatternIfs, <<color, opponent(color), opponent(color)>>, TRUE)

XOOOX(b, move, color) ==
  AnyIf(b, move, XOOOXIfs,
        <<color, opponent(color), opponent(color), opponent(color)>>, TRUE)

check_four_pattern(b, move, color) ==
  AnyIf(b, move, FourPatternIfs,
        <<opponent(color), opponent(color), opponent(color), opponent(color)>>, TRUE)

\* check_open_four_moves with only the `if`s whose move lies between the stones
check_open_four_moves_inner(b, move, color) ==
  AnyIf(b, move, <<OpenFourIfs[1], OpenFourIfs[2], OpenFourIfs[6], OpenFourIfs[8],
                   OpenFourIfs[10], OpenFourIfs[12], OpenFourIfs[15], OpenFourIfs[16]>>,
        <<color, color, color>>, FALSE)

check_open_four_moves(b, move, color) ==
  AnyIf(b, move, OpenFourIfs, <<color, color, color>>, FALSE)

(***************************************************************************)
(* Lists of move strings.                                                  *)
(***************************************************************************)
\* format_point(point_to_coord(move, size)).lower()
MoveString(move, size) == Lower(format_point(point_to_coord(move, size)))

\* s < t for strings, as Python compares them: at the first index where they
\* differ, or s is a proper prefix of t
StrLess(s, t) ==
  \E k \in 1..Len(t) :
    /\ \A j \in 1..(k - 1) : j <= Len(s) /\ s[j] = t[j]
    /\ (k > Len(s) \/ (k <= Len(s) /\ s[k] < t[k]))

\* sorted(list) for a list of strings: the element at index i comes after the
\* elements smaller than it and the equal ones before it in the list
sorted(list) ==
  LET n == Len(list)
      rank == [i \in 1..n |->
                 Cardinality({j \in 1..n : StrLess(list[j], list[i])
                                            \/ (list[j] = list[i] /\ j < i)}) + 1]
  IN  [k \in 1..n |-> list[CHOOSE i \in 1..n : rank[i] = k]]

\* the strings of the moves of a list
MoveStrings(moves, size) == [i \in 1..Len(moves) |-> MoveString(moves[i], size)]

Elements(list) == {list[i] : i \in 1..Len(list)}

(***************************************************************************)
(* The tier functions of the connection.                                   *)
(***************************************************************************)
\* GtpConnection.legal_moves(color): the sorted strings of the legal moves
legal_moves(b, color) ==
  LET lm == generate_legal_moves(b, color)
  IN  sorted(MoveStrings(lm, b.size))

\* get_winning_moves without its second loop: the moves that give five in a
\* row only
get_winning_moves_five_only(b, color) ==
  LET lm == generate_legal_moves(b, color)
      Five(move) == detect_five_in_a_row(play_move(b, move, color)) = color
  IN  MoveStrings(SelectSeq(lm, Five), b.size)

\* GtpConnection.get_winning_moves: the moves that give five in a row on a copy,
\* then the moves that leave the mover with ten or more captures on a copy
get_winning_moves(b, color) ==
  LET lm == generate_legal_moves(b, color)
      Five(move) == detect_five_in_a_row(play_move(b, move, color)) = color
      Ten(move) == get_captures(play_move(b, move, color), color) >= 10
  IN  MoveStrings(SelectSeq(lm, Five), b.size) \o MoveStrings(SelectSeq(lm, Ten), b.size)

\* GtpConnection.get_block_win_moves: list(set(block_moves)); the order of the
\* list is the iteration order of a set of strings, which the code does not fix.
\* The list is given here in ascending order of the points.
get_block_win_moves(b, color) ==
  LET lm == generate_legal_moves(b, color)
      opp == opponent(color)
      captured == IF color = WHITE THEN b.black_captures ELSE b.white_captures
      \* the move number i is appended `if blocked_stones` or `if xooox`
      Blocks(i) == check_four_pattern(b, lm[i], color) \/ XOOOX(b, lm[i], color)
      \* it is appended under `if captured >= 8` or under `if captured >= 7`
      Urgent(i) == \/ captured >= 8 /\ check_capture_pattern(b, lm[i], opp)
                   \/ captured >= 7 /\ XOOOX(b, lm[i], opp)
      appends == {i \in 1..Len(lm) : Blocks(i) \/ Urgent(i)}
      \* `if block_moves` at the move number i: a move was appended before it,
      \* or this move was by the two tests above it
      block_moves_not_empty(i) == Blocks(i) \/ \E k \in appends : k < i
      kept == {i \in 1..Len(lm) :
                 \/ i \in appends
                 \/ block_moves_not_empty(i) /\ check_capture_pattern(b, lm[i], color)}
  IN  MoveStrings(SortedSeq({lm[i] : i \in kept}), b.size)

\* GtpConnection.get_open_four_moves
get_open_four_moves(b, color) ==
  LET lm == generate_legal_moves(b, color)
      OpenFour(move) == check_open_four_moves(b, move, color)
  IN  MoveStrings(SelectSeq(lm, OpenFour), b.size)

\* GtpConnection.find_capture_pattern_in_one_move
find_capture_pattern_in_one_move(b, color) ==
  LET lm == generate_legal_moves(b, color)
      \* each move twice: its first copy is appended for check_capture_pattern,
      \* its second for XOOOX
      twice == [j \in 1..(2 * Len(lm)) |-> <<lm[(j + 1) \div 2], j % 2>>]
      Appended(e) == IF e[2] = 1 THEN check_capture_pattern(b, e[1], color)
                     ELSE XOOOX(b, e[1], color)
      kept == SelectSeq(twice, Appended)
  IN  [i \in 1..Len(kept) |-> MoveString(kept[i][1], b.size)]

(***************************************************************************)
(* String literals of the code and of the input lines.                     *)
(***************************************************************************)
\* "b"
Str_b == <<98>>
\* "w"
Str_w == <<119>>
\* "x"
Str_x == <<120>>
\* "B"
Str_B == <<66>>
\* "print_move"
Str_print_move == <<112, 114, 105, 110, 116, 95, 109, 111, 118, 101>>
\* "random"
Str_random == <<114, 97, 110, 100, 111, 109>>
\* "rule_based"
Str_rule_based == <<114, 117, 108, 101, 95, 98, 97, 115, 101, 100>>
\* "RULE_BASED"
Str_RULE_BASED == <<82, 85, 76, 69, 95, 66, 65, 83, 69, 68>>
\* "foo"
Str_foo == <<102, 111, 111>>
\* "k"
Str_k == <<107>>
\* "6.5"
Str_komi == <<54, 46, 53>>
\* "z99"
Str_z99 == <<122, 57, 57>>
\* "i1"
Str_i1 == <<105, 49>>
\* "a0"
Str_a0 == <<97, 48>>
\* "a"
Str_a == <<97>>
\* "play"
Str_play == <<112, 108, 97, 121>>

(***************************************************************************)
(* Policy moves.                                                           *)
(***************************************************************************)
\* The results random.sample(legal_moves, num_moves) of get_random_move the
\* model draws from: num_moves consecutive moves of the list of legal moves,
\* wrapping round, starting at the first, the middle or the last legal move.
RandomMoveSamples(b) ==
  LET lm == generate_legal_moves(b, b.current_player)
      n == Len(lm)
      num_moves == IF n < 10 THEN n ELSE 10
  IN  IF n = 0 THEN {<<>>}
      ELSE {[i \in 1..num_moves |-> MoveString(lm[((r + i - 1) % n) + 1], b.size)] :
              r \in {0, n \div 2, n - 1}}

\* the tier selection with the tests in the reverse order
RuleBasedMoves_reversed(b) ==
  LET win_moves == get_winning_moves(b, b.current_player)
      block_win_moves == get_block_win_moves(b, b.current_player)
      open_four_moves == get_open_four_moves(b, b.current_player)
      capture_moves == find_capture_pattern_in_one_move(b, b.current_player)
  IN  IF capture_moves # <<>> THEN [name |-> "Capture", moves |-> capture_moves]
      ELSE IF open_four_moves # <<>> THEN [name |-> "OpenFour", moves |-> open_four_moves]
      ELSE IF block_win_moves # <<>> THEN [name |-> "BlockWin", moves |-> block_win_moves]
      ELSE IF win_moves # <<>> THEN [name |-> "Win", moves |-> win_moves]
      ELSE [name |-> "Random", moves |-> <<Str_k, Str_k>>]

\* the tier selection of generate_policy_moves under "rule_based"
RuleBasedMoves(b) ==
  LET win_moves == get_winning_moves(b, b.current_player)
      block_win_moves == get_block_win_moves(b, b.current_player)
      open_four_moves == get_open_four_moves(b, b.current_player)
      capture_moves == find_capture_pattern_in_one_move(b, b.current_player)
  IN  IF win_moves # <<>> THEN [name |-> "Win", moves |-> win_moves]
      ELSE IF block_win_moves # <<>> THEN [name |-> "BlockWin", moves |-> block_win_moves]
      ELSE IF open_four_moves # <<>> THEN [name |-> "OpenFour", moves |-> open_four_moves]
      ELSE IF capture_moves # <<>> THEN [name |-> "Capture", moves |-> capture_moves]
      ELSE [name |-> "Random", moves |-> <<Str_k, Str_k>>]

\* the results of get_random_move generate_policy_moves can draw: it draws only
\* under "random"
PolicySamples(b, policy) ==
  IF policy = Str_random THEN RandomMoveSamples(b) ELSE {<<>>}

\* generate_policy_moves without the tier selection: the label is Random under
\* either policy
generate_policy_moves_untiered(b, policy, sample) ==
  [name |-> "Random", moves |-> sample]

\* GtpConnection.generate_policy_moves; sample is what get_random_move returns
generate_policy_moves(b, policy, sample) ==
  IF policy = Str_random THEN [name |-> "Random", moves |-> sample]
  ELSE RuleBasedMoves(b)

\* " ".join(list) for a non-empty list of strings
RECURSIVE Join(_)
Join(list) ==
  IF Len(list) = 1 THEN list[1] ELSE list[1] \o <<32>> \o Join(Tail(list))

\* genmove_cmd plays move_as_string, the joined list, in place of last_move
LastMoves_joined(pm) == {Join(pm.moves)}

\* policy_moves[-1] of genmove_cmd: the last move of the list; of the list made
\* from a set (BlockWin) any move can come last
LastMoves(pm) ==
  IF pm.name = "BlockWin" THEN Elements(pm.moves) ELSE {pm.moves[Len(pm.moves)]}

(***************************************************************************)
(* Responses.  A response is the frame written ("=" by respond, "?" by     *)
(* error, "" when nothing is written), the text of the message with its    *)
(* reason, and the strings formatted into it.                              *)
(***************************************************************************)
Response(frame, msg, reason, data) ==
  [frame |-> frame, msg |-> msg, reason |-> reason, data |-> data]

respond(msg, reason, data) == Response("=", msg, reason, data)

error(msg) == Response("?", msg, "", <<>>)

NoResponse == Response("", "", "", <<>>)

\* color_to_int for "b" and "w"
color_to_int(c) == IF c = Str_b THEN BLACK ELSE WHITE

\* play_cmd without the test of what play_move returns: a move on an occupied
\* point is answered like a move that was played
play_cmd_unchecked(b, args) ==
  LET board_color == Lower(args[1])
      board_move == args[2]
      coord == move_to_coord(args[2], b.size)
      move == coord_to_point(coord[1], coord[2], b.size)
      color == color_to_int(board_color)
  IN  IF board_color \notin {Str_b, Str_w}
        THEN [board |-> b,
              out |-> respond("illegal move", "wrong color", <<board_color, board_move>>)]
      ELSE IF coord = ValueError
        THEN [board |-> b,
              out |-> respond("illegal move", "wrong coordinate", <<args[1], args[2]>>)]
      ELSE IF Len(args) > 2 /\ args[3] = Str_print_move
        THEN [board |-> play_move(b, move, color),
              out |-> respond("", "", <<Lower(format_point(coord))>>)]
      ELSE [board |-> play_move(b, move, color), out |-> respond("", "", <<>>)]

\* play_cmd handing the turn to the opponent before the move is tried
play_cmd_turn(b, args) ==
  LET board_color == Lower(args[1])
      board_move == args[2]
      coord == move_to_coord(args[2], b.size)
      move == coord_to_point(coord[1], coord[2], b.size)
      color == color_to_int(board_color)
  IN  IF board_color \notin {Str_b, Str_w}
        THEN [board |-> b,
              out |-> respond("illegal move", "wrong color", <<board_color, board_move>>)]
      ELSE IF coord = ValueError
        THEN [board |-> b,
              out |-> respond("illegal move", "wrong coordinate", <<args[1], args[2]>>)]
      ELSE IF ~play_move_ok(b, move)
        THEN [board |-> [b EXCEPT !.current_player = opponent(color)],
              out |-> respond("illegal move", "occupied", <<board_color, board_move>>)]
      ELSE IF Len(args) > 2 /\ args[3] = Str_print_move
        THEN [board |-> play_move(b, move, color),
              out |-> respond("", "", <<Lower(format_point(coord))>>)]
      ELSE [board |-> play_move(b, move, color), out |-> respond("", "", <<>>)]

\* GtpConnection.play_cmd(args): the board after it and the response
play_cmd(b, args) ==
  LET board_color == Lower(args[1])
      board_move == args[2]
      coord == move_to_coord(args[2], b.size)
      move == coord_to_point(coord[1], coord[2], b.size)
      color == color_to_int(board_color)
  IN  IF board_color \notin {Str_b, Str_w}
        THEN [board |-> b,
              out |-> respond("illegal move", "wrong color", <<board_color, board_move>>)]
      ELSE IF coord = ValueError
        THEN [board |-> b,
              out |-> respond("illegal move", "wrong coordinate", <<args[1], args[2]>>)]
      ELSE IF ~play_move_ok(b, move)
        THEN [board |-> b,
              out |-> respond("illegal move", "occupied", <<board_color, board_move>>)]
      ELSE IF Len(args) > 2 /\ args[3] = Str_print_move
        THEN [board |-> play_move(b, move, color),
              out |-> respond("", "", <<Lower(format_point(coord))>>)]
      ELSE [board |-> play_move(b, move, color), out |-> respond("", "", <<>>)]

(***************************************************************************)
(* The Go0 engine (Ninuki.py).  A call that draws at random is the set of  *)
(* the values it can return.                                               *)
(***************************************************************************)
\* Go0.get_winning_moves: board.last_move, once for five in a row of color and
\* once for ten or more captures of color
Go0_get_winning_moves(b, color) ==
  (IF detect_five_in_a_row(b) = color THEN <<b.last_move>> ELSE <<>>)
  \o (IF get_captures(b, color) >= 10 THEN <<b.last_move>> ELSE <<>>)

\* Go0.get_block_win_moves, get_open_four_moves, get_capture_moves: `pass`,
\* they return None
Go0_get_block_win_moves(b, color) == <<>>

\* Go0.generate_moves_based_on_rules: the lists it can return
Go0_generate_moves_based_on_rules(b, color) ==
  LET winning_moves == Go0_get_winning_moves(b, color)
  IN  IF winning_moves # <<>> THEN {<<m>> : m \in Elements(winning_moves)}
      ELSE IF Go0_get_block_win_moves(b, color) # <<>>
        THEN {<<m>> : m \in Elements(Go0_get_block_win_moves(b, color))}
      ELSE {generate_legal_moves(b, color)}

\* Go0.simulation_based_move: None when there is no legal move, else the legal
\* move the rollouts score best, which can be any of them
Go0_simulation_based_move(b, color) ==
  LET legal == generate_legal_moves(b, color)
  IN  IF legal = <<>> THEN {NONE} ELSE Elements(legal)

\* Go0.get_best_move: the values it can return
Go0_get_best_move(b, color) ==
  UNION {IF rule_based_moves # <<>> THEN Elements(rule_based_moves)
         ELSE Go0_simulation_based_move(b, color) :
           rule_based_moves \in Go0_generate_moves_based_on_rules(b, color)}

(***************************************************************************)
(* Input lines.                                                            *)
(***************************************************************************)
Line(name, args) == [name |-> name, args |-> args]

\* the string of the point in the given row and column, as a controller writes it
Coord(row, col) == <<column_letters(col - 1) + 32>> \o Str(row)

PlayLine(c, row, col) == Line("play", <<c, Coord(row, col)>>)

\* argmap: the number of arguments each command requires and its usage text
argmap ==
  [boardsize |-> <<1, "Usage: boardsize INT">>,
   komi |-> <<1, "Usage: komi FLOAT">>,
   known_command |-> <<1, "Usage: known_command CMD_NAME">>,
   genmove |-> <<1, "Usage: genmove {w,b}">>,
   play |-> <<2, "Usage: play {b,w} MOVE">>,
   legal_moves |-> <<1, "Usage: legal_moves {w,b}">>]

\* the keys of self.commands
commands ==
  {"protocol_version", "quit", "name", "policy", "policy_moves", "boardsize",
   "showboard", "clear_board", "komi", "version", "known_command", "genmove",
   "list_commands", "play", "legal_moves", "gogui-rules_legal_moves",
   "gogui-rules_final_result", "gogui-rules_captured_count", "gogui-rules_game_id",
   "gogui-rules_board_size", "gogui-rules_side_to_move", "gogui-rules_board",
   "gogui-analyze_commands", "timelimit", "solve"}

\* the lines a controller may send at any time
FreeLines ==
  {PlayLine(c, row, col) : c \in {Str_b, Str_w}, row \in 1..BoardSize, col \in 1..BoardSize}
  \cup {Line("play", <<Str_x, Coord(1, 1)>>), Line("play", <<Str_B, Coord(2, 2)>>),
        Line("play", <<Str_b, Str_z99>>), Line("play", <<Str_w, Str_i1>>),
        Line("play", <<Str_b, Str_a0>>), Line("play", <<Str_w, Str_a>>),
        Line("play", <<Str_b, Coord(BoardSize + 1, 1)>>),
        Line("play", <<Str_w, Coord(1, BoardSize + 1)>>),
        Line("play", <<Str_b, PassToken>>),
        Line("play", <<Str_b>>), Line("play", <<Str_b, Coord(1, 1), Str_print_move>>),
        Line("genmove", <<Str_b>>), Line("genmove", <<Str_w>>),
        Line("genmove", <<>>), Line("genmove", <<Str_b, Str_w>>),
        Line("policy", <<Str_random>>), Line("policy", <<Str_rule_based>>),
        Line("policy", <<Str_RULE_BASED>>), Line("policy", <<Str_foo>>),
        Line("policy_moves", <<>>),
        Line("boardsize", <<Str(BoardSize)>>), Line("boardsize", <<>>),
        Line("boardsize", <<Str(BoardSize), Str(BoardSize)>>),
        Line("clear_board", <<>>),
        Line("komi", <<Str_komi>>), Line("komi", <<>>), Line("komi", <<Str_komi, Str_komi>>),
        Line("known_command", <<Str_play>>), Line("known_command", <<Str_foo>>),
        Line("known_command", <<>>), Line("known_command", <<Str_play, Str_foo>>),
        Line("legal_moves", <<Str_b>>), Line("legal_moves", <<>>),
        Line("legal_moves", <<Str_b, Str_w>>),
        Line("gogui-rules_final_result", <<>>),
        Line("foo", <<>>)}

\* a stone on every point in ascending order, coloured by the given rule
FillLines(black) ==
  [i \in 1..(BoardSize * BoardSize) |->
     LET row == ((i - 1) \div BoardSize) + 1
         col == ((i - 1) % BoardSize) + 1
     IN  PlayLine(IF black[row, col] THEN Str_b ELSE Str_w, row, col)]

\* a chequered board: the long diagonals are one colour
Chequered == [row \in 1..BoardSize, col \in 1..BoardSize |-> (row + col) % 2 = 0]

\* a chequered board with every fourth row inverted: no five in a row anywhere
Broken ==
  [row \in 1..BoardSize, col \in 1..BoardSize |-> ((row + col) % 2 = 0) # (row % 4 = 0)]

\* Black captures three pairs at a1 and two pairs at e5; Coord(row, col), so a2
\* is Coord(2, 1)
TenCaptures ==
  <<Line("policy", <<Str_rule_based>>),
    PlayLine(Str_b, 4, 1), PlayLine(Str_b, 1, 4), PlayLine(Str_b, 4, 4),
    PlayLine(Str_w, 2, 1), PlayLine(Str_w, 3, 1), PlayLine(Str_w, 1, 2),
    PlayLine(Str_w, 1, 3), PlayLine(Str_w, 2, 2), PlayLine(Str_w, 3, 3),
    PlayLine(Str_b, 1, 1),
    PlayLine(Str_b, 2, 5), PlayLine(Str_b, 5, 2),
    PlayLine(Str_w, 4, 5), PlayLine(Str_w, 3, 5), PlayLine(Str_w, 5, 4),
    PlayLine(Str_w, 5, 3),
    PlayLine(Str_b, 5, 5), PlayLine(Str_w, 3, 3)>>

\* the openings played before the free lines; Coord(row, col), so a2 is Coord(2, 1)
Scripts ==
  << \* nothing played
     <<>>,
     \* Black a1, White a2 a3: Black captures at a4
     <<Line("policy", <<Str_rule_based>>),
       PlayLine(Str_b, 1, 1), PlayLine(Str_w, 2, 1), PlayLine(Str_w, 3, 1)>>,
     \* Black b1 b2 b3 b4, White e5: Black wins at b5
     <<Line("policy", <<Str_rule_based>>),
       PlayLine(Str_b, 1, 2), PlayLine(Str_b, 2, 2), PlayLine(Str_b, 3, 2),
       PlayLine(Str_b, 4, 2), PlayLine(Str_w, 5, 5)>>,
     \* White b1 b2 b3 b4: Black must block at b5
     <<Line("policy", <<Str_rule_based>>),
       PlayLine(Str_w, 1, 2), PlayLine(Str_w, 2, 2), PlayLine(Str_w, 3, 2),
       PlayLine(Str_w, 4, 2)>>,
     \* Black b2 b3 b4, White e5: open four for Black at b1 and b5
     <<Line("policy", <<Str_rule_based>>),
       PlayLine(Str_b, 2, 2), PlayLine(Str_b, 3, 2), PlayLine(Str_b, 4, 2),
       PlayLine(Str_w, 5, 5)>>,
     \* Black captures three pairs at a1 and two pairs at e5: ten captures
     TenCaptures,
     \* then White plays a3 b3 d3 e3: five in a row for White on the third line
     TenCaptures \o <<PlayLine(Str_w, 3, 1), PlayLine(Str_w, 3, 2),
                      PlayLine(Str_w, 3, 4), PlayLine(Str_w, 3, 5)>>,
     \* every point filled, nobody has five in a row
     FillLines(Broken),
     \* every point filled, five in a row on the long diagonal
     FillLines(Chequered),
     \* Black a1, White a2 a3 under the policy of the start, random
     <<PlayLine(Str_b, 1, 1), PlayLine(Str_w, 2, 1), PlayLine(Str_w, 3, 1)>> >>

(***************************************************************************)
(* The state.                                                              *)
(***************************************************************************)
VARIABLES
  board,       \* self.board, the live GoBoard
  policytype,  \* self.policytype
  komi,        \* self.go_engine.komi, as the string it was set from
  out,         \* what the last line read made the connection write
  line,        \* the last line read from standard input
  invoked,     \* the operation run last: the handler get_cmd called for the line
               \* ("" when it called none), or "get_best_move"
  best,        \* the last call of Go0.get_best_move: its color and what it returned
  script,      \* the lines of the opening still to be read
  nfree,       \* the number of free steps taken
  conv         \* the call of a function on its own (a coordinate conversion, a tier
               \* function, a simulation) and what it returned

\* no call of Go0.get_best_move yet
NoCall == [color |-> EMPTY, move |-> NONE]

\* no coordinate conversion called yet
NoConversion == [fn |-> "", size |-> 0, move |-> <<>>, token |-> <<>>, result |-> <<>>]

vars == <<board, policytype, komi, out, line, invoked, best, script, nfree, conv>>

Init ==
  /\ board = reset(BoardSize)
  /\ policytype = Str_random
  /\ komi = <<>>
  /\ out = NoResponse
  /\ line = Line("", <<>>)
  /\ invoked = ""
  /\ best = NoCall
  /\ script \in Elements(Scripts)
  /\ nfree = 0
  /\ conv = NoConversion

\* the lines that can be read next: the next line of the opening, then free lines
NextLines ==
  IF script # <<>> THEN {Head(script)}
  ELSE IF nfree < MaxFree THEN FreeLines
  ELSE {}

\* stdin.readline() returns l
Read(l) ==
  /\ l \in NextLines
  /\ line' = l
  /\ IF script # <<>>
       THEN script' = Tail(script) /\ nfree' = nfree
       ELSE script' = script /\ nfree' = nfree + 1

\* has_arg_error taking the declared count for a minimum
has_arg_error_minimum(cmd, argnum) ==
  cmd \in DOMAIN argmap /\ argmap[cmd][1] > argnum

\* GtpConnection.has_arg_error(cmd, argnum)
has_arg_error(cmd, argnum) ==
  cmd \in DOMAIN argmap /\ argmap[cmd][1] # argnum

\* get_cmd calls the handler of l
Dispatch(l, name) ==
  /\ l.name = name
  /\ ~has_arg_error(l.name, Len(l.args))
  /\ l.name \in commands
  /\ invoked' = name

(***************************************************************************)
(* get_cmd: one action for each way a line is answered.                    *)
(***************************************************************************)
\* has_arg_error answers the line with the usage text; no handler is called
ArgError ==
  \E l \in NextLines :
    /\ Read(l)
    /\ has_arg_error(l.name, Len(l.args))
    /\ out' = error(argmap[l.name][2])
    /\ invoked' = ""
    /\ UNCHANGED <<board, policytype, komi, best, conv>>

\* the command is not a key of self.commands
UnknownCommand ==
  \E l \in NextLines :
    /\ Read(l)
    /\ ~has_arg_error(l.name, Len(l.args))
    /\ l.name \notin commands
    /\ out' = error("Unknown command")
    /\ invoked' = ""
    /\ UNCHANGED <<board, policytype, komi, best, conv>>

PlayCmd ==
  \E l \in NextLines :
    /\ Read(l)
    /\ Dispatch(l, "play")
    /\ LET r == play_cmd(board, l.args)
       IN  board' = r.board /\ out' = r.out
    /\ UNCHANGED <<policytype, komi, best, conv>>

\* GtpConnection.flat_monte_carlo_simulation(color, legal_moves): the moves it
\* can return; the rollouts are random, the first move with the highest number
\* of wins is returned, and that can be any of the moves
flat_monte_carlo_simulation(b, color, moves) == moves

\* the resign test looking at the colour asked for, not at its opponent
genmove_resigns_own(b, color) ==
  LET result1 == detect_five_in_a_row(b)
      result2 == IF get_captures(b, color) >= 10 THEN color ELSE EMPTY
  IN  result1 = color \/ result2 = color

\* the resign test of genmove_cmd: the opponent of color has five in a row, or
\* ten or more captures
genmove_resigns(b, color) ==
  LET result1 == detect_five_in_a_row(b)
      result2 == IF get_captures(b, opponent(color)) >= 10
                 THEN opponent(color) ELSE EMPTY
  IN  result1 = opponent(color) \/ result2 = opponent(color)

\* GtpConnection.genmove_cmd(args)
GenmoveCmd ==
  \E l \in NextLines :
    /\ Read(l)
    /\ Dispatch(l, "genmove")
    /\ LET board_color == Lower(l.args[1])
           color == color_to_int(board_color)
           legal == get_empty_points(board)
       IN  IF genmove_resigns(board, color)
             THEN board' = board /\ out' = respond("resign", "", <<>>)
           ELSE IF legal = {}
             THEN board' = board /\ out' = respond("pass", "", <<>>)
           ELSE
             \E sample \in PolicySamples(board, policytype) :
               LET pm == generate_policy_moves(board, policytype, sample)
               IN  IF pm.name = "Random"
                     THEN \E m \in flat_monte_carlo_simulation(board, color, legal) :
                            LET r == play_cmd(board, <<board_color, MoveString(m, board.size),
                                                       Str_print_move>>)
                            IN  board' = r.board /\ out' = r.out
                   ELSE IF pm.name = "RuleBased"
                     THEN LET r == play_cmd(board, <<board_color, pm.moves[1], Str_print_move>>)
                          IN  board' = r.board /\ out' = r.out
                   ELSE \E last_move \in LastMoves(pm) :
                          LET r == play_cmd(board, <<board_color, last_move, Str_print_move>>)
                          IN  board' = r.board /\ out' = r.out
    /\ UNCHANGED <<policytype, komi, best, conv>>

\* set_policy_cmd storing whatever policy it is given
PolicyCmd_unchecked ==
  \E l \in NextLines :
    /\ Read(l)
    /\ Dispatch(l, "policy")
    /\ policytype' = Lower(l.args[1])
    /\ out' = respond("", "", <<>>)
    /\ UNCHANGED <<board, komi, best, conv>>

\* GtpConnection.set_policy_cmd(args)
PolicyCmd ==
  \E l \in NextLines :
    /\ Read(l)
    /\ Dispatch(l, "policy")
    /\ LET policy_type == Lower(l.args[1])
       IN  IF policy_type \in {Str_random, Str_rule_based}
             THEN policytype' = policy_type /\ out' = respond("", "", <<>>)
           ELSE /\ policytype' = policytype
                /\ out' = error("Invalid policy type. Use 'random' or 'rule_based'.")
    /\ UNCHANGED <<board, komi, best, conv>>

\* GtpConnection.policy_moves_cmd(args)
PolicyMovesCmd ==
  \E l \in NextLines :
    /\ Read(l)
    /\ Dispatch(l, "policy_moves")
    /\ \E sample \in PolicySamples(board, policytype) :
         LET current_moves == generate_policy_moves(board, policytype, sample)
         IN  out' = respond(current_moves.name, "", sorted(current_moves.moves))
    /\ UNCHANGED <<board, policytype, komi, best, conv>>

\* GtpConnection.boardsize_cmd(args)
BoardsizeCmd ==
  \E l \in NextLines :
    /\ Read(l)
    /\ Dispatch(l, "boardsize")
    /\ IsIntLiteral(l.args[1])
    /\ board' = reset(ParseInt(l.args[1]))
    /\ out' = respond("", "", <<>>)
    /\ UNCHANGED <<policytype, komi, best, conv>>

\* GtpConnection.clear_board_cmd(args)
ClearBoardCmd ==
  \E l \in NextLines :
    /\ Read(l)
    /\ Dispatch(l, "clear_board")
    /\ board' = reset(board.size)
    /\ out' = respond("", "", <<>>)
    /\ UNCHANGED <<policytype, komi, best, conv>>

\* GtpConnection.komi_cmd(args)
KomiCmd ==
  \E l \in NextLines :
    /\ Read(l)
    /\ Dispatch(l, "komi")
    /\ komi' = l.args[1]
    /\ out' = respond("", "", <<>>)
    /\ UNCHANGED <<board, policytype, best, conv>>

\* GtpConnection.known_command_cmd(args); the names asked for are "play" and "foo"
KnownCommandCmd ==
  \E l \in NextLines :
    /\ Read(l)
    /\ Dispatch(l, "known_command")
    /\ out' = respond(IF l.args[1] = Str_play THEN "true" ELSE "false", "", <<>>)
    /\ UNCHANGED <<board, policytype, komi, best, conv>>

\* GtpConnection.legal_moves_cmd(args): returns the list, writes nothing
LegalMovesCmd ==
  \E l \in NextLines :
    /\ Read(l)
    /\ Dispatch(l, "legal_moves")
    /\ out' = NoResponse
    /\ UNCHANGED <<board, policytype, komi, best, conv>>

\* what gogui_rules_final_result_cmd answers on the board b
gogui_rules_final_result(b) ==
  LET result1 == detect_five_in_a_row(b)
      result2 == IF get_captures(b, BLACK) >= 10 THEN BLACK
                 ELSE IF get_captures(b, WHITE) >= 10 THEN WHITE
                 ELSE EMPTY
  IN  IF result1 = BLACK \/ result2 = BLACK THEN "black"
      ELSE IF result1 = WHITE \/ result2 = WHITE THEN "white"
      ELSE IF get_empty_points(b) = {} THEN "draw"
      ELSE "unknown"

\* GtpConnection.gogui_rules_final_result_cmd(args)
FinalResultCmd ==
  \E l \in NextLines :
    /\ Read(l)
    /\ Dispatch(l, "gogui-rules_final_result")
    /\ out' = respond(gogui_rules_final_result(board), "", <<>>)
    /\ UNCHANGED <<board, policytype, komi, best, conv>>

\* a call of Go0.get_best_move(board, color) on the live board
GetBestMove ==
  /\ script = <<>>
  /\ nfree < MaxFree
  /\ \E color \in {BLACK, WHITE} : \E move \in Go0_get_best_move(board, color) :
       best' = [color |-> color, move |-> move]
  /\ line' = Line("", <<>>)
  /\ invoked' = "get_best_move"
  /\ nfree' = nfree + 1
  /\ UNCHANGED <<board, policytype, komi, out, script, conv>>

Next ==
  \/ ArgError
  \/ UnknownCommand
  \/ PlayCmd
  \/ GenmoveCmd
  \/ PolicyCmd
  \/ PolicyMovesCmd
  \/ BoardsizeCmd
  \/ ClearBoardCmd
  \/ KomiCmd
  \/ KnownCommandCmd
  \/ LegalMovesCmd
  \/ FinalResultCmd
  \/ GetBestMove

Spec == Init /\ [][Next]_vars

(***************************************************************************)
(* The coordinate conversions on their own: format_point and move_to_coord *)
(* applied to points and tokens of every board size from 2 to MAXSIZE.     *)
(***************************************************************************)
\* the largest row number written in a token
MaxTokenRow == 26

\* first characters of the tokens: a..z, A..Z, and @ [ ` { 1 -
TokenLetters == (97..122) \cup (65..90) \cup {64, 91, 96, 123, 49, 45}

\* what follows the first character: the numbers -1..MaxTokenRow, then
\* "", "x", "1x", "+3", "01", "1_0", "1.5", "_1"
TokenRows ==
  {Str(n) : n \in (0 - 1)..MaxTokenRow}
  \cup {<<>>, <<120>>, <<49, 120>>, <<43, 51>>, <<48, 49>>, <<49, 95, 48>>,
        <<49, 46, 53>>, <<95, 49>>}

\* the tokens move_to_coord is called with; "pass" in three spellings
Tokens ==
  {<<c>> \o r : c \in TokenLetters, r \in TokenRows}
  \cup {<<>>, PassToken, PASSString, <<80, 97, 115, 115>>}

\* the board sizes move_to_coord accepts
BoardSizes == 2..MAXSIZE

InitCoord == Init /\ script = <<>>

\* the first conversion called: format_point(move) for a point of a board of some size (or PASS), and
\* move_to_coord of the string it returned
FormatPoint ==
  /\ conv = NoConversion
  /\ \E size \in BoardSizes :
      \E move \in {<<row, col>> : row \in 1..size, col \in 1..size} \cup {<<PASS, PASS>>} :
        LET str == format_point(move)
        IN  conv' = [fn |-> "format_point", size |-> size, move |-> move, token |-> str,
                     result |-> IF str = ValueError THEN ValueError
                                ELSE move_to_coord(str, size)]
  /\ UNCHANGED <<board, policytype, komi, out, line, invoked, best, script, nfree>>

\* the first conversion called: move_to_coord(token, size)
MoveToCoord ==
  /\ conv = NoConversion
  /\ \E size \in BoardSizes :
      \E token \in Tokens :
        conv' = [fn |-> "move_to_coord", size |-> size, move |-> <<>>, token |-> token,
                 result |-> move_to_coord(token, size)]
  /\ UNCHANGED <<board, policytype, komi, out, line, invoked, best, script, nfree>>

NextCoord ==
  \/ FormatPoint
  \/ MoveToCoord

SpecCoord == InitCoord /\ [][NextCoord]_vars

(***************************************************************************)
(* Properties of the coordinate conversions, under SpecCoord.              *)
(***************************************************************************)
\* C8: coordinate round trip: for every board size from 2 to MAXSIZE, every
\* point with 1 <= row <= size and 1 <= column <= size, and for PASS,
\* move_to_coord(format_point(p), size) equals p.
C8_RoundTrip ==
  conv.fn = "format_point" => conv.result = conv.move

\* the number of the column a lower-case letter names: its place among the
\* letters a..z without i
ColumnIndex(c) == Cardinality({d \in 97..c : d # 105})

\* the tokens the coordinate encoding has no point for on a board of the given
\* size, letters read without regard to case: no column letter, a column
\* letter outside a..z or the letter i, a row part that is not an integer >= 1,
\* a row or a column beyond the size
TokenRejected(token, size) ==
  LET s == Lower(token) IN
  \/ Len(s) = 0
  \/ s[1] \notin 97..122
  \/ s[1] = 105
  \/ ~IsIntLiteral(Tail(s))
  \/ ParseInt(Tail(s)) < 1
  \/ ParseInt(Tail(s)) > size
  \/ ColumnIndex(s[1]) > size

\* C9: move_to_coord(token, size) raises ValueError for every token whose
\* column letter is outside a..z or is i, whose row part is not an integer
\* >= 1, or whose row or column exceeds the size; for every other token but
\* "pass" it returns a pair (row, column) with both in 1..size.
C9_MoveToCoordRejects ==
  (conv.fn = "move_to_coord" /\ Lower(conv.token) # PassToken) =>
    IF TokenRejected(conv.token, conv.size)
      THEN conv.result = ValueError
    ELSE /\ conv.result # ValueError
         /\ Len(conv.result) = 2
         /\ 1 <= conv.result[1] /\ conv.result[1] <= conv.size
         /\ 1 <= conv.result[2] /\ conv.result[2] <= conv.size

\* the token "Z25" on a board of size 25 is read as row 25 of column 25
C9_Witness ==
  /\ conv.fn = "move_to_coord"
  /\ conv.token = <<90>> \o Str(MAXSIZE)
  /\ conv.result = <<MAXSIZE, MAXSIZE>>

(***************************************************************************)
(* Properties of the connection and of the engine, under Spec.             *)
(***************************************************************************)
\* the step reads a line and get_cmd calls the handler of the command `name`
Handled(name) == (script' # script \/ nfree' # nfree) /\ invoked' = name

\* the point a move string names on a board of the given size
PointOf(str, size) ==
  LET s == Lower(str)
  IN  coord_to_point(ParseInt(Tail(s)), ColumnIndex(s[1]), size)

\* the four tiers of the connection for the player to move, in the order
\* Win, BlockWin, OpenFour, Capture
Tiers(b) ==
  << [name |-> "Win", moves |-> get_winning_moves(b, b.current_player)],
     [name |-> "BlockWin", moves |-> get_block_win_moves(b, b.current_player)],
     [name |-> "OpenFour", moves |-> get_open_four_moves(b, b.current_player)],
     [name |-> "Capture", moves |-> find_capture_pattern_in_one_move(b, b.current_player)] >>

\* C1: under the rule_based policy, policy_moves answers with the first
\* non-empty tier in the order Win, BlockWin, OpenFour, Capture and with its
\* label; when the Win tier is not empty the answer is the Win tier, whatever
\* the lower tiers hold.
C1_TierOrder ==
  (invoked = "policy_moves" /\ policytype = Str_rule_based) =>
    LET tiers == Tiers(board)
        nonempty == {i \in 1..4 : tiers[i].moves # <<>>}
    IN  nonempty # {} =>
          LET first == CHOOSE i \in nonempty : \A j \in nonempty : i <= j
          IN  /\ out.frame = "="
              /\ out.msg = tiers[first].name
              /\ Elements(out.data) = Elements(tiers[first].moves)

\* policy_moves answered Win on a board where the OpenFour tier is not empty
C1_Witness ==
  /\ invoked = "policy_moves"
  /\ policytype = Str_rule_based
  /\ out.msg = "Win"
  /\ get_open_four_moves(board, board.current_player) # <<>>

\* every move string of the list names a point that is empty on the board b
StringsOfEmptyPoints(list, b) ==
  \A i \in 1..Len(list) : get_color(b, PointOf(list[i], b.size)) = EMPTY

\* every point of the list is empty on the board b
EmptyPoints(list, b) ==
  \A i \in 1..Len(list) : get_color(b, list[i]) = EMPTY

\* C2: for every colour, every point a tier function returns (Win, BlockWin,
\* OpenFour, Capture of the connection; the tier functions of Go0) is empty
\* on the board.
C2_TierPointsEmpty ==
  \A color \in {BLACK, WHITE} :
    /\ StringsOfEmptyPoints(get_winning_moves(board, color), board)
    /\ StringsOfEmptyPoints(get_block_win_moves(board, color), board)
    /\ StringsOfEmptyPoints(get_open_four_moves(board, color), board)
    /\ StringsOfEmptyPoints(find_capture_pattern_in_one_move(board, color), board)
    /\ EmptyPoints(Go0_get_winning_moves(board, color), board)
    /\ EmptyPoints(Go0_get_block_win_moves(board, color), board)

\* the move of a play line is illegal on the board b: its token, which is not
\* "pass", names no point of the board, or the point it names is not empty
IllegalMove(b, args) ==
  /\ Lower(args[2]) # PassToken
  /\ \/ TokenRejected(args[2], b.size)
     \/ get_color(b, PointOf(args[2], b.size)) # EMPTY

\* C3, as the spec states it: a play command whose move is illegal is answered
\* with a failure response, one that begins with "?" and holds the offending
\* token and the reason.
C3_IllegalPlayFails ==
  [][(Handled("play") /\ IllegalMove(board, line'.args)) =>
       /\ out'.frame = "?"
       /\ line'.args[2] \in Elements(out'.data)
       /\ out'.reason # ""]_vars

\* C3, amended: a play command whose move is illegal is answered with a
\* response that begins with "=" and reads illegal move, with the offending
\* token and the reason: wrong color when the colour is neither b nor w, else
\* wrong coordinate when the token names no point of the board, else occupied.
C3_IllegalPlayAnswered ==
  [][(Handled("play") /\ IllegalMove(board, line'.args)) =>
       /\ out'.frame = "="
       /\ out'.msg = "illegal move"
       /\ out'.data[2] = line'.args[2]
       /\ out'.reason =
            IF Lower(line'.args[1]) \notin {Str_b, Str_w} THEN "wrong color"
            ELSE IF TokenRejected(line'.args[2], board.size) THEN "wrong coordinate"
            ELSE "occupied"]_vars

\* play b z99 was answered: the token is beyond the board
C3_Witness ==
  /\ invoked = "play"
  /\ line.args = <<Str_b, Str_z99>>
  /\ out.reason = "wrong coordinate"

\* C4: after a play command answered as an illegal move, the stones, both
\* capture counts and the side to move are what they were before it.
C4_IllegalPlayKeepsBoard ==
  [][(Handled("play") /\ out'.msg = "illegal move") =>
       /\ board'.board = board.board
       /\ board'.black_captures = board.black_captures
       /\ board'.white_captures = board.white_captures
       /\ board'.current_player = board.current_player]_vars

\* a play on an occupied point was answered, with stones on the board
C4_Witness ==
  /\ invoked = "play"
  /\ out.msg = "illegal move"
  /\ out.reason = "occupied"
  /\ get_color(board, PointOf(line.args[2], board.size)) \in {BLACK, WHITE}

\* the colour a genmove line asks a move for
AskedColor(l) == color_to_int(Lower(l.args[1]))

\* C5, as the spec states it: when the board has no empty point, genmove
\* answers "= pass" and places no stone.
C5_FullBoardPasses ==
  [][(Handled("genmove") /\ get_empty_points(board) = {}) =>
       /\ out' = respond("pass", "", <<>>)
       /\ board' = board]_vars

\* C5, amended: when the board has no empty point, genmove c places no stone;
\* it answers "= resign" when the board reports five in a row of the opponent
\* of c or that opponent has ten or more captures, and "= pass" otherwise.
C5_FullBoardPassesOrResigns ==
  [][(Handled("genmove") /\ get_empty_points(board) = {}) =>
       LET opp == opponent(AskedColor(line'))
           lost == detect_five_in_a_row(board) = opp \/ get_captures(board, opp) >= 10
       IN  /\ out' = respond(IF lost THEN "resign" ELSE "pass", "", <<>>)
           /\ board' = board]_vars

\* genmove answered pass on a board without an empty point
C5_Witness ==
  /\ invoked = "genmove"
  /\ out = respond("pass", "", <<>>)
  /\ get_empty_points(board) = {}

\* C6: genmove c with an empty point on the board and the game not won by the
\* opponent of c puts one stone of the colour c on a point that was empty, no
\* other point gets a stone, and the answer is the coordinate of that point.
C6_GenmovePlaysOneMove ==
  [][(/\ Handled("genmove")
      /\ get_empty_points(board) # {}
      /\ ~has_five(board, opponent(AskedColor(line')))
      /\ get_captures(board, opponent(AskedColor(line'))) < 10) =>
       /\ out'.frame = "=" /\ out'.msg = "" /\ Len(out'.data) = 1
       /\ ~TokenRejected(out'.data[1], board.size)
       /\ LET point == PointOf(out'.data[1], board.size)
              coord == point_to_coord(point, board.size)
          IN  /\ out'.data[1] = Coord(coord[1], coord[2])
              /\ board.board[point] = EMPTY
              /\ board'.board[point] = AskedColor(line')
              /\ \A q \in Points(board.size) \ {point} :
                   board'.board[q] \in {board.board[q], EMPTY}]_vars

\* genmove under rule_based answered with the coordinate of the stone it put
\* on the board
C6_Witness ==
  /\ invoked = "genmove"
  /\ policytype = Str_rule_based
  /\ out.frame = "=" /\ out.msg = "" /\ Len(out.data) = 1
  /\ PointOf(out.data[1], board.size) = board.last_move
  /\ get_color(board, board.last_move) = AskedColor(line)

\* C7: get_best_move(board, color) returns PASS when, and only when, there is
\* no legal move, and otherwise a point that is empty on the board; it never
\* returns an occupied point.
C7_BestMove ==
  invoked = "get_best_move" =>
    /\ best.move = PASS <=> get_empty_points(board) = {}
    /\ get_empty_points(board) # {} => best.move \in get_empty_points(board)

\* C10, as the spec states it: the declared argument count of a command is a
\* minimum: a line with fewer arguments is answered with the failure response
\* of the usage text and no handler is called, a line with at least that many
\* is passed to the handler of the command.
C10_MinimumArgumentCount ==
  line.name \in DOMAIN argmap =>
    IF Len(line.args) < argmap[line.name][1]
      THEN out = error(argmap[line.name][2]) /\ invoked = ""
    ELSE invoked = line.name

\* C10, amended: the declared argument count of a command is exact: a line
\* with any other number of arguments, fewer or more, is answered with the
\* failure response of the usage text and no handler is called, a line with
\* exactly that many is passed to the handler of the command.
C10_ExactArgumentCount ==
  line.name \in DOMAIN argmap =>
    IF Len(line.args) # argmap[line.name][1]
      THEN out = error(argmap[line.name][2]) /\ invoked = ""
    ELSE invoked = line.name

\* play b a1 print_move, three arguments, was answered with the usage text
C10_Witness ==
  /\ line = Line("play", <<Str_b, Coord(1, 1), Str_print_move>>)
  /\ out = error("Usage: play {b,w} MOVE")
  /\ invoked = ""

\* C11: when a tactical tier (Win, BlockWin, OpenFour, Capture) is not empty
\* under the rule_based policy, every candidate of the selected tier can be the
\* move genmove plays: the moves genmove can take from the list are all the
\* moves of the list, not the move at one fixed position of it.
C11_AnyCandidateCanBePlayed ==
  LET pm == generate_policy_moves(board, policytype, <<>>)
  IN  (policytype = Str_rule_based /\ pm.name # "Random") =>
        LastMoves(pm) = Elements(pm.moves)

\* C12: under the rule_based policy, when the Win, BlockWin, OpenFour and
\* Capture sets are all empty, the tier selection returns the label Random
\* together with the full set of legal moves of the position.
C12_RandomIsAllLegalMoves ==
  LET pm == generate_policy_moves(board, policytype, <<>>)
      tiers == Tiers(board)
  IN  (policytype = Str_rule_based /\ \A i \in 1..4 : tiers[i].moves = <<>>) =>
        /\ pm.name = "Random"
        /\ Elements(pm.moves) = Elements(legal_moves(board, board.current_player))

(***************************************************************************)
(* The tier functions on their own: get_winning_moves, get_open_four_moves *)
(* and find_capture_pattern_in_one_move called once, for either colour, on *)
(* a board that play commands have built.                                  *)
(***************************************************************************)
\* the size of the boards the lines and the brackets are laid on
PatternSize == 6

\* the four axes and the eight directions as <<rows, columns>> steps
AxisSteps == {<<1, 0>>, <<0, 1>>, <<1, 1>>, <<1, -1>>}

DirectionSteps == AxisSteps \cup {<<0 - d[1], 0 - d[2]>> : d \in AxisSteps}

OnBoard(row, col, size) == row \in 1..size /\ col \in 1..size

\* the board after play_move for each stone <<color, row, col>> of a list
RECURSIVE PlayStones(_, _)
PlayStones(b, stones) ==
  IF stones = <<>> THEN b
  ELSE PlayStones(play_move(b, coord_to_point(stones[1][2], stones[1][3], b.size),
                            stones[1][1]),
                  Tail(stones))

\* the boards of an opening: the board after each of its lines, the play lines
\* changing it as play_cmd does (the board before a line is computed first)
BoardsAfter(lines) ==
  LET after[k \in 0..Len(lines)] ==
        IF k = 0 THEN reset(BoardSize)
        ELSE LET before == after[k - 1]
             IN  IF before.size > 0 /\ lines[k].name = "play"
                   THEN play_cmd(before, lines[k].args).board
                 ELSE before
  IN  {after[k] : k \in 0..Len(lines)}

\* the boards of the openings, after each of their lines
ScriptBoards == UNION {BoardsAfter(Scripts[s]) : s \in 1..Len(Scripts)}

\* a window of five cells along an axis, all on the board, filled with stones
\* of one colour but for the cell number gap (0..4), or filled whole (gap 5)
LineBoards ==
  {PlayStones(reset(PatternSize),
              [i \in 1..(IF w[5] = 5 THEN 5 ELSE 4) |->
                 LET k == IF i <= w[5] THEN i - 1 ELSE i
                 IN  <<w[4], w[1] + k * w[3][1], w[2] + k * w[3][2]>>]) :
     w \in {v \in (1..PatternSize) \X (1..PatternSize) \X AxisSteps
                    \X {BLACK, WHITE} \X (0..5) :
              OnBoard(v[1] + 4 * v[3][1], v[2] + 4 * v[3][2], PatternSize)}}

\* a bracket: a stone of the mover three cells from a point in one of the
\* eight directions and two stones of the opponent between them
BracketBoards ==
  {PlayStones(reset(PatternSize),
              << <<w[4], w[1] + 3 * w[3][1], w[2] + 3 * w[3][2]>>,
                 <<opponent(w[4]), w[1] + w[3][1], w[2] + w[3][2]>>,
                 <<opponent(w[4]), w[1] + 2 * w[3][1], w[2] + 2 * w[3][2]>> >>) :
     w \in {v \in (1..PatternSize) \X (1..PatternSize) \X DirectionSteps
                    \X {BLACK, WHITE} :
              OnBoard(v[1] + 3 * v[3][1], v[2] + 3 * v[3][2], PatternSize)}}

\* a longer bracket: a stone of the mover four or five cells from a point in
\* one of the eight directions and three or four stones of the opponent
\* between them
LongBracketBoards ==
  {PlayStones(reset(PatternSize),
              [i \in 1..(w[5] + 1) |->
                 <<IF i = w[5] + 1 THEN w[4] ELSE opponent(w[4]),
                   w[1] + i * w[3][1], w[2] + i * w[3][2]>>]) :
     w \in {v \in (1..PatternSize) \X (1..PatternSize) \X DirectionSteps
                    \X {BLACK, WHITE} \X {3, 4} :
              OnBoard(v[1] + (v[5] + 1) * v[3][1], v[2] + (v[5] + 1) * v[3][2],
                      PatternSize)}}

TierBoards == ScriptBoards \cup LineBoards \cup BracketBoards \cup LongBracketBoards

\* no tier function called yet
NoTierCall == [fn |-> "", color |-> EMPTY, result |-> <<>>]

InitTier ==
  /\ board \in TierBoards
  /\ policytype = Str_rule_based
  /\ komi = <<>>
  /\ out = NoResponse
  /\ line = Line("", <<>>)
  /\ invoked = ""
  /\ best = NoCall
  /\ script = <<>>
  /\ nfree = 0
  /\ conv = NoTierCall

\* the one call made: get_winning_moves(board, color)
WinMovesCall ==
  /\ conv = NoTierCall
  /\ \E color \in {BLACK, WHITE} :
       conv' = [fn |-> "get_winning_moves", color |-> color,
                result |-> get_winning_moves(board, color)]
  /\ UNCHANGED <<board, policytype, komi, out, line, invoked, best, script, nfree>>

\* the one call made: get_open_four_moves(board, color)
OpenFourMovesCall ==
  /\ conv = NoTierCall
  /\ \E color \in {BLACK, WHITE} :
       conv' = [fn |-> "get_open_four_moves", color |-> color,
                result |-> get_open_four_moves(board, color)]
  /\ UNCHANGED <<board, policytype, komi, out, line, invoked, best, script, nfree>>

\* the one call made: find_capture_pattern_in_one_move(board, color)
CaptureMovesCall ==
  /\ conv = NoTierCall
  /\ \E color \in {BLACK, WHITE} :
       conv' = [fn |-> "find_capture_pattern_in_one_move", color |-> color,
                result |-> find_capture_pattern_in_one_move(board, color)]
  /\ UNCHANGED <<board, policytype, komi, out, line, invoked, best, script, nfree>>

\* the one call made: get_block_win_moves(board, color)
BlockWinMovesCall ==
  /\ conv = NoTierCall
  /\ \E color \in {BLACK, WHITE} :
       conv' = [fn |-> "get_block_win_moves", color |-> color,
                result |-> get_block_win_moves(board, color)]
  /\ UNCHANGED <<board, policytype, komi, out, line, invoked, best, script, nfree>>

NextTier ==
  \/ WinMovesCall
  \/ BlockWinMovesCall
  \/ OpenFourMovesCall
  \/ CaptureMovesCall

SpecTier == InitTier /\ [][NextTier]_vars

(***************************************************************************)
(* Properties of the tier functions, under SpecTier.                       *)
(***************************************************************************)
\* the points the move strings of a list name on a board of the given size
PointsOf(list, size) == {PointOf(list[i], size) : i \in 1..Len(list)}

C14_OpenFourEnds ==
  conv.fn = "get_open_four_moves" =>
    \A row \in 1..board.size, col \in 1..board.size, d \in AxisSteps :
      LET Cell(k) == coord_to_point(row + k * d[1], col + k * d[2], board.size)
      IN  (/\ OnBoard(row - d[1], col - d[2], board.size)
           /\ OnBoard(row + 4 * d[1], col + 4 * d[2], board.size)
           /\ \A k \in 0..3 : board.board[Cell(k)] = conv.color
           /\ board.board[Cell(0 - 1)] = EMPTY
           /\ board.board[Cell(4)] = EMPTY)
          => {Cell(0 - 1), Cell(4)} \subseteq PointsOf(conv.result, board.size)

\* Black has b2 b3 b4 b5 on the board of six lines and nothing else is on it:
\* get_open_four_moves for Black holds b1 and b6
C14_Witness ==
  /\ conv.fn = "get_open_four_moves"
  /\ conv.color = BLACK
  /\ board.size = 6
  /\ {p \in Points(6) : board.board[p] # EMPTY}
       = {coord_to_point(row, 2, 6) : row \in 2..5}
  /\ \A row \in 2..5 : board.board[coord_to_point(row, 2, 6)] = BLACK
  /\ {Coord(1, 2), Coord(6, 2)} \subseteq Elements(conv.result)

\* C15: for every empty point p and each of the eight directions, if the two
\* cells next to p in that direction hold stones of the opponent of color and
\* the third cell holds a stone of color, find_capture_pattern_in_one_move(board,
\* color) holds p, wherever on the board the three stones lie.
C15_BracketFound ==
  conv.fn = "find_capture_pattern_in_one_move" =>
    \A row \in 1..board.size, col \in 1..board.size, d \in DirectionSteps :
      LET Cell(k) == coord_to_point(row + k * d[1], col + k * d[2], board.size)
      IN  (/\ OnBoard(row + 3 * d[1], col + 3 * d[2], board.size)
           /\ board.board[Cell(0)] = EMPTY
           /\ board.board[Cell(1)] = opponent(conv.color)
           /\ board.board[Cell(2)] = opponent(conv.color)
           /\ board.board[Cell(3)] = conv.color)
          => Cell(0) \in PointsOf(conv.result, board.size)

\* Black a1, White a2 and a3, a4 empty: the list for Black holds a4
C15_Witness ==
  /\ conv.fn = "find_capture_pattern_in_one_move"
  /\ conv.color = BLACK
  /\ board.board[coord_to_point(1, 1, board.size)] = BLACK
  /\ board.board[coord_to_point(2, 1, board.size)] = WHITE
  /\ board.board[coord_to_point(3, 1, board.size)] = WHITE
  /\ board.board[coord_to_point(4, 1, board.size)] = EMPTY
  /\ Coord(4, 1) \in Elements(conv.result)

(***************************************************************************)
(* Properties of the status queries and of the policy mode, under Spec.    *)
(***************************************************************************)
\* C16: gogui-rules_final_result reports by the precedence five in a row
\* first, capture threshold second: the colour that has five in a row if there
\* is one; otherwise the colour with ten or more captures; otherwise draw when
\* no point is empty; otherwise unknown; in every state that play and genmove
\* commands reach.
C16_FinalResultPrecedence ==
  invoked = "gogui-rules_final_result" =>
    LET five == detect_five_in_a_row(board)
    IN  out.msg = IF five = BLACK THEN "black"
                  ELSE IF five = WHITE THEN "white"
                  ELSE IF get_captures(board, BLACK) >= 10 THEN "black"
                  ELSE IF get_captures(board, WHITE) >= 10 THEN "white"
                  ELSE IF get_empty_points(board) = {} THEN "draw"
                  ELSE "unknown"

\* C17: the policy mode is always random or rule_based: it starts as random;
\* `policy X` sets it to X in lower case and succeeds when X is random or
\* rule_based in any case of letters, any other X gets a failure response and
\* leaves the mode as it was; no other command changes the mode.
C17_PolicyMode ==
  /\ policytype = Str_random
  /\ [](policytype \in {Str_random, Str_rule_based})
  /\ [][IF Handled("policy")
          THEN IF Lower(line'.args[1]) \in {Str_random, Str_rule_based}
                 THEN policytype' = Lower(line'.args[1]) /\ out'.frame = "="
               ELSE policytype' = policytype /\ out'.frame = "?"
        ELSE policytype' = policytype]_vars

\* `policy RULE_BASED` was answered with success and the mode is rule_based
C17_Witness ==
  /\ invoked = "policy"
  /\ line.args = <<Str_RULE_BASED>>
  /\ out.frame = "="
  /\ policytype = Str_rule_based

(***************************************************************************)
(* Go0.simulation_based_move on its own: an engine constructed with some   *)
(* number of simulations, called once on a board of the openings.          *)
(***************************************************************************)
\* the largest number of simulations an engine is constructed with
MaxSimulations == 2

\* the num_simulations given to Go0.__init__: negative, zero and positive
SimulationCounts == (0 - 1)..MaxSimulations

\* Go0.__init__(num_simulations): the number is stored as it is given
Go0_init(num_simulations) == [num_simulations |-> num_simulations]

\* Go0.simulation_based_move of the engine self: what it raises ("" when it
\* raises nothing) and the move it returns.  With no legal move the loop does
\* not run and None is returned.  With num_simulations = 0 the first
\* wins / self.num_simulations divides by zero.  With a negative number no
\* rollout is run, every win_rate is 0 / num_simulations, which is greater
\* than -1 for the first move and a tie for the others: any legal move can be
\* returned, as with a positive number.
Go0_simulation_based_move_of(self, b, color) ==
  LET legal == generate_legal_moves(b, color)
  IN  IF legal = <<>> THEN {[raised |-> "", move |-> NONE]}
      ELSE IF self.num_simulations = 0
        THEN {[raised |-> "ZeroDivisionError", move |-> NONE]}
      ELSE {[raised |-> "", move |-> m] : m \in Elements(legal)}

InitSim ==
  /\ board \in ScriptBoards
  /\ policytype = Str_random
  /\ komi = <<>>
  /\ out = NoResponse
  /\ line = Line("", <<>>)
  /\ invoked = ""
  /\ best = NoCall
  /\ script = <<>>
  /\ nfree = 0
  /\ conv = NoTierCall

\* the one call made: Go0(num_simulations).simulation_based_move(board, color)
SimulationCall ==
  /\ conv = NoTierCall
  /\ \E num_simulations \in SimulationCounts : \E color \in {BLACK, WHITE} :
       \E r \in Go0_simulation_based_move_of(Go0_init(num_simulations), board, color) :
         conv' = [fn |-> "simulation_based_move", color |-> color,
                  result |-> [num_simulations |-> num_simulations,
                              raised |-> r.raised, move |-> r.move]]
  /\ UNCHANGED <<board, policytype, komi, out, line, invoked, best, script, nfree>>

NextSim == SimulationCall

SpecSim == InitSim /\ [][NextSim]_vars

\* C18: the simulation policy rejects a number of trials N < 1: constructing
\* the engine with N = 0 or a negative N and running the simulation raises a
\* rejection; no move is evaluated and returned with that N.
C18_RejectsTrialCountBelowOne ==
  (conv.fn = "simulation_based_move" /\ conv.result.num_simulations < 1) =>
    conv.result.raised # ""

(***************************************************************************)
(* Properties of the pattern checks, under SpecTier.                       *)
(***************************************************************************)
\* the cells <<row, column>> whose colour one `if` of a check reads at the move
\* (x, y): none when its guard fails; else move1, move2, ... in order, up to
\* the first cell that does not hold the colour wanted (the `and` of the test
\* reads no further)
CellsRead(b, x, y, entry, colors, closed) ==
  IF \A i \in 1..Len(entry.g) :
       LET v == (IF entry.g[i][1] = "x" THEN x ELSE y) + entry.g[i][2]
       IN  IF closed THEN GuardClosed(b.size, v) ELSE GuardHalfOpen(b.size, v)
    THEN {<<x + entry.c[i][1], y + entry.c[i][2]>> :
            i \in {k \in 1..Len(entry.c) :
                     \A j \in 1..(k - 1) :
                       get_color(b, coord_to_point(x + entry.c[j][1], y + entry.c[j][2],
                                                   b.size)) = colors[j]}}
  ELSE {}

\* the cells the four checks read for a move and a colour
AllCellsRead(b, move, color) ==
  LET xy == point_to_coord(move, b.size)
      opp == opponent(color)
      Of(table, colors, closed) ==
        UNION {CellsRead(b, xy[1], xy[2], table[i], colors, closed) : i \in 1..Len(table)}
  IN  Of(CapturePatternIfs, <<color, opp, opp>>, TRUE)
      \cup Of(XOOOXIfs, <<color, opp, opp, opp>>, TRUE)
      \cup Of(FourPatternIfs, <<opp, opp, opp, opp>>, TRUE)
      \cup Of(OpenFourIfs, <<color, color, color>>, FALSE)

\* C19: for every legal (empty) point and every pattern check
\* (check_capture_pattern, XOOOX, check_four_pattern, check_open_four_moves),
\* every cell whose colour is read has its row and its column inside the
\* bordered board, 0..size+1: no read is off the board or wraps into another row.
C19_ReadsInsideBoard ==
  \A move \in get_empty_points(board), color \in {BLACK, WHITE} :
    \A cell \in AllCellsRead(board, move, color) :
      /\ cell[1] \in 0..(board.size + 1)
      /\ cell[2] \in 0..(board.size + 1)

\* the point a reflection takes a point to: rows mirrored, columns mirrored,
\* or both (the point reflection)
ReflectPoint(p, size, rows, cols) ==
  LET xy == point_to_coord(p, size)
  IN  coord_to_point(IF rows THEN size + 1 - xy[1] ELSE xy[1],
                     IF cols THEN size + 1 - xy[2] ELSE xy[2], size)

\* the reflected board: each point holds what its image held
ReflectBoard(b, rows, cols) ==
  [b EXCEPT !.board = [p \in DOMAIN b.board |->
                         IF p \in Points(b.size)
                           THEN b.board[ReflectPoint(p, b.size, rows, cols)]
                         ELSE b.board[p]]]

\* the legal moves a check matches on a board for a colour
MatchSet(check(_, _, _), b, color) ==
  {move \in get_empty_points(b) : check(b, move, color)}

\* the match set of a check on every reflection of the board is the
\* reflection of its match set on the board
Symmetric(check(_, _, _), b) ==
  \A color \in {BLACK, WHITE} :
    \A r \in {<<TRUE, FALSE>>, <<FALSE, TRUE>>, <<TRUE, TRUE>>} :
      MatchSet(check, ReflectBoard(b, r[1], r[2]), color)
        = {ReflectPoint(move, b.size, r[1], r[2]) : move \in MatchSet(check, b, color)}

\* C20: reflection symmetry of the pattern matching: for every board and
\* colour, the sets the open-four, four-block, pair-capture and long-bracket
\* checks produce on the reflected board (rows mirrored, columns mirrored, or
\* both) are the reflections of the sets they produce on the board.
C20_ReflectionSymmetry ==
  /\ Symmetric(check_open_four_moves, board)
  /\ Symmetric(check_four_pattern, board)
  /\ Symmetric(check_capture_pattern, board)
  /\ Symmetric(XOOOX, board)

(***************************************************************************)
(* Properties of the BlockWin, OpenFour and Capture tiers, under SpecTier. *)
(***************************************************************************)
\* C21: the list returned by get_block_win_moves(board, mover) holds every
\* empty point p for which some window of five cells through p, along one of
\* the four axes and in one of the five alignments, lies on the board and has
\* its other four cells all occupied by the opponent of the mover.
C21_BlocksEveryFour ==
  conv.fn = "get_block_win_moves" =>
    LET found == PointsOf(conv.result, board.size)
    IN  \A row \in 1..board.size, col \in 1..board.size, d \in AxisSteps, k \in 0..4 :
          LET Cell(j) == coord_to_point(row + (j - k) * d[1], col + (j - k) * d[2],
                                        board.size)
          IN  (/\ OnBoard(row - k * d[1], col - k * d[2], board.size)
               /\ OnBoard(row + (4 - k) * d[1], col + (4 - k) * d[2], board.size)
               /\ board.board[Cell(k)] = EMPTY
               /\ \A j \in (0..4) \ {k} : board.board[Cell(j)] = opponent(conv.color))
              => Cell(k) \in found

\* C22: the list returned by get_block_win_moves(board, mover) holds every
\* empty point from which, in some direction, two stones of the opponent and
\* then a stone of the mover follow (the point where the mover captures the
\* pair), whether or not any point blocking a four exists and wherever the
\* point comes in the enumeration of the legal moves.
C22_BlockWinHoldsCaptures ==
  conv.fn = "get_block_win_moves" =>
    LET found == PointsOf(conv.result, board.size)
    IN  \A row \in 1..board.size, col \in 1..board.size, d \in DirectionSteps :
          LET Cell(j) == coord_to_point(row + j * d[1], col + j * d[2], board.size)
          IN  (/\ OnBoard(row + 3 * d[1], col + 3 * d[2], board.size)
               /\ board.board[Cell(0)] = EMPTY
               /\ board.board[Cell(1)] = opponent(conv.color)
               /\ board.board[Cell(2)] = opponent(conv.color)
               /\ board.board[Cell(3)] = conv.color)
              => Cell(0) \in found

\* C23: every point p of the list returned by get_open_four_moves(board, color)
\* is an empty point that makes, with three stones of color, four in a line
\* along one of the four axes, and a cell next beyond an end of that four is an
\* empty point of the board; a point whose four is closed at both ends, by the
\* edge or by stones, is not in the list.
C23_OpenFourIsOpen ==
  conv.fn = "get_open_four_moves" =>
    \A p \in PointsOf(conv.result, board.size) :
      LET row == point_to_coord(p, board.size)[1]
          col == point_to_coord(p, board.size)[2]
      IN  /\ board.board[p] = EMPTY
          /\ \E d \in AxisSteps, k \in 0..3 :
               LET Cell(j) == coord_to_point(row + (j - k) * d[1], col + (j - k) * d[2],
                                             board.size)
                   Open(j) == /\ OnBoard(row + (j - k) * d[1], col + (j - k) * d[2],
                                         board.size)
                              /\ board.board[Cell(j)] = EMPTY
               IN  /\ OnBoard(row - k * d[1], col - k * d[2], board.size)
                   /\ OnBoard(row + (3 - k) * d[1], col + (3 - k) * d[2], board.size)
                   /\ \A j \in (0..3) \ {k} : board.board[Cell(j)] = conv.color
                   /\ (Open(0 - 1) \/ Open(4))

\* C24: every point of the list returned by find_capture_pattern_in_one_move(
\* board, mover) is an empty point from which, in some direction, exactly two
\* or exactly four stones of the opponent follow and then a stone of the mover;
\* a point followed only by other numbers of opponent stones before the mover's
\* stone, three for one, is not in the list.
C24_CaptureBracketsTwoOrFour ==
  conv.fn = "find_capture_pattern_in_one_move" =>
    \A p \in PointsOf(conv.result, board.size) :
      LET row == point_to_coord(p, board.size)[1]
          col == point_to_coord(p, board.size)[2]
      IN  /\ board.board[p] = EMPTY
          /\ \E d \in DirectionSteps, n \in {2, 4} :
               LET Cell(j) == coord_to_point(row + j * d[1], col + j * d[2], board.size)
               IN  /\ OnBoard(row + (n + 1) * d[1], col + (n + 1) * d[2], board.size)
                   /\ \A j \in 1..n : board.board[Cell(j)] = opponent(conv.color)
                   /\ board.board[Cell(n + 1)] = conv.color

(***************************************************************************)
(* Properties of move generation, under Spec.                               *)
(***************************************************************************)
\* the points a step puts a stone on
Placed == {p \in DOMAIN board.board : board.board[p] = EMPTY /\ board'.board[p] \in {BLACK, WHITE}}

\* the first tier of the position that is not empty, in the order Win,
\* BlockWin, OpenFour, Capture; no moves when all four are empty
FirstTier(b) ==
  LET win == get_winning_moves(b, b.current_player)
      block == get_block_win_moves(b, b.current_player)
      four == get_open_four_moves(b, b.current_player)
      capture == find_capture_pattern_in_one_move(b, b.current_player)
  IN  IF win # <<>> THEN win
      ELSE IF block # <<>> THEN block
      ELSE IF four # <<>> THEN four
      ELSE capture

\* C25, as the spec states it: in every policy mode, whenever some tactical
\* tier of the position is not empty, the stone genmove places is a move of
\* that tier (the simulation, which can return any legal move, is not run).
C25_TierMoveInEveryMode ==
  [][(Handled("genmove") /\ Placed # {}) =>
       LET tier == FirstTier(board)
       IN  tier # <<>> => Placed \subseteq PointsOf(tier, board.size)]_vars

\* C25, amended: under the rule_based policy, whenever some tactical tier of
\* the position is not empty, the stone genmove places is a move of the first
\* tier that is not empty.
C25_TierMoveWhenRuleBased ==
  [][(Handled("genmove") /\ policytype = Str_rule_based /\ Placed # {}) =>
       LET tier == FirstTier(board)
       IN  tier # <<>> => Placed \subseteq PointsOf(tier, board.size)]_vars

\* the second opening, then genmove b under rule_based: the Capture tier of
\* Black is a4 alone, and a4 is played, capturing a2 and a3
C25_Witness ==
  /\ invoked = "genmove"
  /\ policytype = Str_rule_based
  /\ out = respond("", "", <<Coord(4, 1)>>)
  /\ board.board[coord_to_point(1, 1, board.size)] = BLACK
  /\ board.board[coord_to_point(4, 1, board.size)] = BLACK
  /\ board.board[coord_to_point(2, 1, board.size)] = EMPTY
  /\ board.board[coord_to_point(3, 1, board.size)] = EMPTY
  /\ get_captures(board, BLACK) = 2

(***************************************************************************)
(* The selection of the best candidate: one call of Go0.simulation_based_   *)
(* move or of flat_monte_carlo_simulation on a board with few empty points, *)
(* the wins counted for each candidate being whatever the random rollouts   *)
(* give.                                                                    *)
(***************************************************************************)
MaxCandidates == 3

\* simulations = 10 of flat_monte_carlo_simulation
simulations == 10

\* the wins a candidate can count in range(num) trials: none when the range is
\* empty
TrialWins(num) == 0..(IF num > 0 THEN num ELSE 0)

\* the wins counted by flat_monte_carlo_simulation that are tried: few, and all
\* ten
FlatWins == (0..MaxSimulations) \cup {simulations}

\* wins1 / num > wins2 / num, for num # 0
RateGreater(wins1, wins2, num) == IF num > 0 THEN wins1 > wins2 ELSE wins1 < wins2

\* a selection that throws the coin for every candidate, not only on ties
Replaces_on_coin(greater, equal, coin) == greater \/ coin

\* Go0.simulation_based_move: the candidate becomes best_move when win_rate >
\* best_win_rate, or when they are equal and random.random() < 0.5
Replaces(greater, equal, coin) == greater \/ (equal /\ coin)

\* flat_monte_carlo_simulation: the candidate becomes best_move when
\* win_percentage > best_win_percentage
Replaces_flat(greater, equal, coin) == greater

\* the loop `for move in legal_moves` of either function (flat says which)
\* over n candidates:
\* the index of best_move after each candidate, 0 standing for None with the
\* rate -1, which every rate of a candidate is greater than
Incumbents(n, wins, num, coins, flat) ==
  LET inc[k \in 0..n] ==
        IF k = 0 THEN 0
        ELSE LET prev == inc[k - 1]
                 greater == prev = 0 \/ RateGreater(wins[k], wins[prev], num)
                 equal == prev # 0 /\ wins[k] = wins[prev]
             IN  IF (IF flat THEN Replaces_flat(greater, equal, coins[k])
                     ELSE Replaces(greater, equal, coins[k]))
                   THEN k ELSE prev
  IN  [k \in 1..n |-> inc[k]]

InitScore ==
  /\ board \in {b \in ScriptBoards : Cardinality(get_empty_points(b)) \in 1..MaxCandidates}
  /\ policytype = Str_random
  /\ komi = <<>>
  /\ out = NoResponse
  /\ line = Line("", <<>>)
  /\ invoked = ""
  /\ best = NoCall
  /\ script = <<>>
  /\ nfree = 0
  /\ conv = NoTierCall

\* the one call made: Go0(num_simulations).simulation_based_move(board, color),
\* with the wins each candidate counts and the coins thrown on ties
ScoredSimulationCall ==
  /\ conv = NoTierCall
  /\ \E color \in {BLACK, WHITE}, num \in SimulationCounts \ {0} :
       LET legal == generate_legal_moves(board, color)
           n == Len(legal)
       IN  \E wins \in [1..n -> TrialWins(num)], coins \in [1..n -> BOOLEAN] :
             LET inc == Incumbents(n, wins, Go0_init(num).num_simulations, coins, FALSE)
             IN  conv' = [fn |-> "simulation_based_move", color |-> color,
                          result |-> [num |-> num, candidates |-> legal, wins |-> wins,
                                      incumbents |-> inc, move |-> legal[inc[n]]]]
  /\ UNCHANGED <<board, policytype, komi, out, line, invoked, best, script, nfree>>

\* the one call made: flat_monte_carlo_simulation(color, legal_moves) with the
\* empty points of the board, as genmove_cmd calls it
FlatSimulationCall ==
  /\ conv = NoTierCall
  /\ \E color \in {BLACK, WHITE} :
       LET legal == SortedSeq(get_empty_points(board))
           n == Len(legal)
       IN  \E wins \in [1..n -> FlatWins] :
             LET inc == Incumbents(n, wins, simulations, [k \in 1..n |-> FALSE], TRUE)
             IN  conv' = [fn |-> "flat_monte_carlo_simulation", color |-> color,
                          result |-> [num |-> simulations, candidates |-> legal,
                                      wins |-> wins, incumbents |-> inc,
                                      move |-> legal[inc[n]]]]
  /\ UNCHANGED <<board, policytype, komi, out, line, invoked, best, script, nfree>>

NextScore ==
  \/ ScoredSimulationCall
  \/ FlatSimulationCall

SpecScore == InitScore /\ [][NextScore]_vars

\* C26: the move the simulation returns is one of the candidates, an empty
\* point, and no candidate has a greater score wins / N; in the loop a
\* candidate with a score strictly lower than the incumbent's never replaces
\* it, and a candidate with a strictly higher score always does.
C26_BestScoreReturned ==
  conv.fn \in {"simulation_based_move", "flat_monte_carlo_simulation"} =>
    LET r == conv.result
        n == Len(r.candidates)
        last == r.incumbents[n]
    IN  /\ last \in 1..n
        /\ r.move = r.candidates[last]
        /\ board.board[r.move] = EMPTY
        /\ \A k \in 1..n : ~RateGreater(r.wins[k], r.wins[last], r.num)
        /\ \A k \in 2..n :
             LET prev == r.incumbents[k - 1]
             IN  /\ RateGreater(r.wins[prev], r.wins[k], r.num) => r.incumbents[k] = prev
                 /\ RateGreater(r.wins[k], r.wins[prev], r.num) => r.incumbents[k] = k

\* three candidates with 1, 2 and 0 wins of 2 trials: the second is returned,
\* having replaced the first and kept its place against the third
C26_Witness ==
  /\ conv.fn = "simulation_based_move"
  /\ conv.result.num = 2
  /\ conv.result.wins = <<1, 2, 0>>
  /\ conv.result.incumbents = <<1, 2, 2>>
  /\ conv.result.move = conv.result.candidates[2]

(***************************************************************************)
(* A rollout: the loop of Go0.simulate_game, or the loop inside             *)
(* flat_monte_carlo_simulation, run on a copy of the board.  board is the   *)
(* copy; conv names the function, says whether its loop is still running   *)
(* and keeps the copy the rollout started from.                             *)
(***************************************************************************)
MaxRolloutEmpty == 2

\* GoBoard.check_game_end(): five in a row, ten or more captures of a colour,
\* or no empty point
check_game_end_no_draw(b) ==
  \/ detect_five_in_a_row(b) # EMPTY
  \/ get_captures(b, BLACK) >= 10
  \/ get_captures(b, WHITE) >= 10

check_game_end(b) ==
  \/ detect_five_in_a_row(b) # EMPTY
  \/ get_captures(b, BLACK) >= 10
  \/ get_captures(b, WHITE) >= 10
  \/ get_empty_points(b) = {}

\* GoBoard.pass_move(): the turn goes to the opponent
pass_move(b) == [b EXCEPT !.current_player = opponent(@), !.last_move = PASS]

\* a board with every point filled, Black where black[row, col] holds
FullBoard(black) ==
  [reset(BoardSize) EXCEPT
     !.board = [p \in DOMAIN @ |->
                  IF p \notin Points(BoardSize) THEN @[p]
                  ELSE IF black[point_to_coord(p, BoardSize)[1],
                                point_to_coord(p, BoardSize)[2]]
                    THEN BLACK ELSE WHITE]]

\* the positions rollouts start from: a full board with at most
\* MaxRolloutEmpty points in a row of the second column emptied, either colour
\* to play, both colours having captured four or eight stones before
RolloutBoards ==
  {[full EXCEPT !.board = [p \in DOMAIN @ |-> IF p \in holes THEN EMPTY ELSE @[p]],
                !.current_player = player,
                !.black_captures = captures,
                !.white_captures = captures] :
     full \in {FullBoard(Broken), FullBoard(Chequered)},
     holes \in {{coord_to_point(row, 2, BoardSize) : row \in from..(from + n - 1)} :
                  from \in 1..BoardSize, n \in 0..MaxRolloutEmpty} \cap
               SUBSET Points(BoardSize),
     player \in {BLACK, WHITE},
     captures \in {4, 8}}

InitRollout ==
  /\ board \in RolloutBoards
  /\ policytype = Str_random
  /\ komi = <<>>
  /\ out = NoResponse
  /\ line = Line("", <<>>)
  /\ invoked = ""
  /\ best = NoCall
  /\ script = <<>>
  /\ nfree = 0
  /\ \E fn \in {"simulate_game", "flat_monte_carlo_simulation"} :
       conv = [fn |-> fn, running |-> TRUE, start |-> board]

\* one turn of `while not board.check_game_end()` of Go0.simulate_game: the
\* loop ends, or the side to play passes for want of a legal move, or it plays
\* a random legal move
SimulateGameStep ==
  /\ conv.fn = "simulate_game"
  /\ conv.running
  /\ IF check_game_end(board)
       THEN board' = board /\ conv' = [conv EXCEPT !.running = FALSE]
     ELSE LET legal == generate_legal_moves(board, board.current_player)
          IN  /\ conv' = conv
              /\ IF legal = <<>> THEN board' = pass_move(board)
                 ELSE \E random_move \in Elements(legal) :
                        board' = play_move(board, random_move, board.current_player)
  /\ UNCHANGED <<policytype, komi, out, line, invoked, best, script, nfree>>

\* one turn of `while board_copy.checkwinner == "unknown"` of
\* flat_monte_carlo_simulation: the loop ends, or a random empty point is
\* played for the opponent of the side to play
FlatRolloutStep ==
  /\ conv.fn = "flat_monte_carlo_simulation"
  /\ conv.running
  /\ IF check_game_end(board)
       THEN board' = board /\ conv' = [conv EXCEPT !.running = FALSE]
     ELSE /\ conv' = conv
          /\ \E random_move \in get_empty_points(board) :
               board' = play_move(board, random_move, opponent(board.current_player))
  /\ UNCHANGED <<policytype, komi, out, line, invoked, best, script, nfree>>

NextRollout ==
  \/ SimulateGameStep
  \/ FlatRolloutStep

\* the loop of a rollout is run by the one thread of the program, which goes on
\* running it as long as it can
SpecRollout == InitRollout /\ [][NextRollout]_vars /\ WF_vars(NextRollout)

\* C27: every rollout ends: whatever random moves are drawn, the loop reaches
\* after finitely many turns a board with five in a row, with ten or more
\* captures of a colour, or with no empty point, and stops there, although
\* captures empty points that were occupied.
C27_RolloutTerminates ==
  <>(/\ ~conv.running
     /\ \/ has_five(board, BLACK) \/ has_five(board, WHITE)
        \/ get_captures(board, BLACK) >= 10 \/ get_captures(board, WHITE) >= 10
        \/ get_empty_points(board) = {})

\* a rollout of simulate_game that has ended on a full board after a capture
\* emptied points of it
C27_Witness ==
  /\ conv.fn = "simulate_game"
  /\ ~conv.running
  /\ get_empty_points(board) = {}
  /\ get_captures(board, BLACK) + get_captures(board, WHITE)
       > get_captures(conv.start, BLACK) + get_captures(conv.start, WHITE)

(***************************************************************************)
(* The trials of candidate evaluation: one call of simulation_based_move,   *)
(* flat_monte_carlo_simulation, get_winning_moves or policy_moves, trial by *)
(* trial.  board is the live board; conv names the function and keeps the   *)
(* live board as it was at the call (start), the trial moves still to be    *)
(* tried (pending), the copy of the running trial (board_copy), whether a   *)
(* rollout is running on it (rolling) and whether the call has returned.    *)
(***************************************************************************)
\* GoBoard.copy(): a board with the same stones, counts and side to play
copy(b) == b

\* the live board and the copy after a trial that makes no copy and plays the
\* move on the board it is given
trial_on_board(b, move, color) ==
  [board |-> play_move(b, move, color), board_copy |-> play_move(b, move, color)]

\* board_copy = board.copy(); board_copy.play_move(move, color): the live board
\* and the copy after it
trial(b, move, color) ==
  LET board_copy == copy(b)
  IN  [board |-> b, board_copy |-> play_move(board_copy, move, color)]

\* no copy made yet
NoCopy == [size |-> 0]

\* each move of a list tried n times running
TrialsOf(moves, n) == [i \in 1..(Len(moves) * n) |-> moves[((i - 1) \div n) + 1]]

\* the trial moves of a call, in the order the function tries them: each legal
\* move num_simulations times (MaxSimulations of the ten of
\* flat_monte_carlo_simulation), each legal move once in each of the two loops
\* of get_winning_moves, and for policy_moves the trials of get_winning_moves
\* under rule_based, none under random
TrialMoves(fn, b, color, policy) ==
  IF fn = "simulation_based_move"
    THEN TrialsOf(generate_legal_moves(b, color), Go0_init(MaxSimulations).num_simulations)
  ELSE IF fn = "flat_monte_carlo_simulation"
    THEN TrialsOf(SortedSeq(get_empty_points(b)), MaxSimulations)
  ELSE IF fn = "get_winning_moves" \/ policy = Str_rule_based
    THEN generate_legal_moves(b, color) \o generate_legal_moves(b, color)
  ELSE <<>>

InitTrial ==
  /\ board \in RolloutBoards
  /\ policytype \in {Str_random, Str_rule_based}
  /\ komi = <<>>
  /\ out = NoResponse
  /\ line = Line("", <<>>)
  /\ invoked = ""
  /\ best = NoCall
  /\ script = <<>>
  /\ nfree = 0
  /\ \E fn \in {"simulation_based_move", "flat_monte_carlo_simulation",
                "get_winning_moves", "policy_moves"} :
       \E color \in IF fn = "policy_moves" THEN {board.current_player}
                    ELSE {BLACK, WHITE} :
         conv = [fn |-> fn, color |-> color, start |-> board,
                 pending |-> TrialMoves(fn, board, color, policytype),
                 board_copy |-> NoCopy, rolling |-> FALSE, returned |-> FALSE]

\* the next trial begins: the board is copied and the trial move played
TrialBegin ==
  /\ ~conv.returned
  /\ ~conv.rolling
  /\ conv.pending # <<>>
  /\ LET t == trial(board, Head(conv.pending), conv.color)
     IN  /\ board' = t.board
         /\ conv' = [conv EXCEPT
                       !.board_copy = t.board_copy,
                       !.pending = Tail(@),
                       !.rolling = conv.fn \in {"simulation_based_move",
                                                "flat_monte_carlo_simulation"}]
  /\ UNCHANGED <<policytype, komi, out, line, invoked, best, script, nfree>>

\* one turn of the rollout of the running trial, on its copy
TrialRollout ==
  /\ conv.rolling
  /\ IF check_game_end(conv.board_copy)
       THEN conv' = [conv EXCEPT !.rolling = FALSE]
     ELSE \E random_move \in get_empty_points(conv.board_copy) :
            LET player == IF conv.fn = "simulation_based_move"
                            THEN conv.board_copy.current_player
                          ELSE opponent(conv.board_copy.current_player)
            IN  conv' = [conv EXCEPT
                           !.board_copy = play_move(@, random_move, player)]
  /\ UNCHANGED <<board, policytype, komi, out, line, invoked, best, script, nfree>>

\* the call returns; policy_moves writes its response
TrialReturn ==
  /\ ~conv.returned
  /\ ~conv.rolling
  /\ conv.pending = <<>>
  /\ conv' = [conv EXCEPT !.returned = TRUE]
  /\ IF conv.fn = "policy_moves"
       THEN \E sample \in PolicySamples(board, policytype) :
              LET current_moves == generate_policy_moves(board, policytype, sample)
              IN  out' = respond(current_moves.name, "", sorted(current_moves.moves))
     ELSE out' = out
  /\ UNCHANGED <<board, policytype, komi, line, invoked, best, script, nfree>>

NextTrial ==
  \/ TrialBegin
  \/ TrialRollout
  \/ TrialReturn

SpecTrial == InitTrial /\ [][NextTrial]_vars

\* C28: during and after a call of simulation_based_move, of
\* flat_monte_carlo_simulation, of get_winning_moves and of policy_moves the
\* live board is as it was at the call: its stones, its capture counts and its
\* side to move; the trial moves are played on copies.
C28_LiveBoardUnchanged == board = conv.start

\* a call of flat_monte_carlo_simulation has returned after a trial whose copy
\* differs from the live board, which still has its empty points
C28_Witness ==
  /\ conv.fn = "flat_monte_carlo_simulation"
  /\ conv.returned
  /\ conv.board_copy # NoCopy
  /\ conv.board_copy.board # board.board
  /\ get_empty_points(board) # {}

(***************************************************************************)
(* Properties of the dispatcher and of genmove, under Spec.                 *)
(***************************************************************************)
\* C29: every line that names a command of the dispatch table and passes the
\* check of the number of arguments is answered, before the next line is read,
\* with one response framed "= ..." or "? ..."; this holds for every command
\* of the table, legal_moves among them.
C29_EveryCommandAnswered ==
  [][((script' # script \/ nfree' # nfree) /\ invoked' \in commands) =>
       out'.frame \in {"=", "?"}]_vars

\* the first tier computed for a colour that is not empty, in the order Win,
\* BlockWin, OpenFour, Capture; no moves when all four are empty
FirstTierOf(b, color) ==
  LET win == get_winning_moves(b, color)
      block == get_block_win_moves(b, color)
      four == get_open_four_moves(b, color)
      capture == find_capture_pattern_in_one_move(b, color)
  IN  IF win # <<>> THEN win
      ELSE IF block # <<>> THEN block
      ELSE IF four # <<>> THEN four
      ELSE capture

\* C30: the tactical candidates genmove c selects its move from, under the
\* rule_based policy, are the moves of the first non-empty tier computed for
\* the colour c named in the command, also when c is not the side to move of
\* the board: the stone placed and the tiers are of the same colour.
C30_TiersOfAskedColor ==
  [][(Handled("genmove") /\ policytype = Str_rule_based /\ Placed # {}) =>
       LET pm == generate_policy_moves(board, policytype, <<>>)
       IN  pm.name # "Random" =>
             Elements(pm.moves) = Elements(FirstTierOf(board, AskedColor(line')))]_vars

====
